---- MODULE Spec2Model ----
(***************************************************************************)
(* The support-request pipeline of apps/api/src: AgentWorkflow wires five  *)
(* agents (classify, retrieve, write, validate, log) into a linear         *)
(* LangGraph, each node wrapped in asyncio.wait_for and given the same     *)
(* RetryPolicy.  One request is one run; a run owns one AgentState.        *)
(*                                                                         *)
(* Python values are modelled as follows: str as a TLA+ string, None /     *)
(* True / False as the strings None, True, False below, a dict as a        *)
(* function from its keys, a list as a sequence, a parsed JSON value as a  *)
(* record tagged with its Python type.  Time is counted in whole seconds.  *)
(***************************************************************************)
EXTENDS Integers, Sequences, FiniteSets, TLC

VARIABLES
    calls,       \* run -> arguments and clock reading of its process_request
    pc,          \* run -> position of process_request
    st,          \* run -> AgentState of the run (runs that have started)
    attempts,    \* run -> failed attempts of the current node (retry loop)
    result,      \* run -> value returned by process_request (finished runs)
    ran,         \* run -> sequence of node attempts made so far (history)
    now,         \* wall clock, in seconds
    http,        \* the POST /process request of main.py and its response
    calc,        \* a method applied on its own: its argument and its value
    timeoutIsOSError  \* build: asyncio.TimeoutError is builtins.TimeoutError

vars == <<calls, pc, st, attempts, result, ran, now, http, calc, timeoutIsOSError>>

-----------------------------------------------------------------------------
\* Bounds of the model.

\* longest trace, and longest text, a token estimate is computed for
MaxTraceLen == 3

MaxChars == 8

\* longest collaborator call that still answers, in seconds
MaxCallSeconds == 0
\* most rows the knowledge store returns in one search
MaxResults == 2

-----------------------------------------------------------------------------
\* Python values.

None == "None"
True == "True"
False == "False"

\* bool(v) of a str / None / bool value
bool(v) == v # None /\ v # "" /\ v # False

\* d.get(k, default) of a dict
dict_get(d, k, default) == IF k \in DOMAIN d THEN d[k] ELSE default

\* a dict literal from at most three key/value pairs
Dict3(k1, v1, k2, v2, k3, v3) == (k1 :> v1) @@ (k2 :> v2) @@ (k3 :> v3)

EmptyDict == [k \in {} |-> None]

IsDict(v) == v.type = "dict"

-----------------------------------------------------------------------------
\* Configuration.

AGENT_MAX_RETRIES == 2

AGENT_STEP_TIMEOUT_SECONDS == 30

-----------------------------------------------------------------------------
\* The enumerations the classifier's instruction text names.

Intents == {"technical_issue", "billing_inquiry", "general_question",
            "feature_request", "complaint", "account_issue"}

Sentiments == {"positive", "neutral", "negative"}

Urgencies == {"high", "medium", "low"}

-----------------------------------------------------------------------------
\* json.loads: a completion text either is well-formed JSON, and then has
\* the value it denotes, or raises JSONDecodeError.

JsonText(v) == [wellformed |-> TRUE, value |-> v]

Malformed == [wellformed |-> FALSE, value |-> None]

JsonObject(items) == [type |-> "dict", items |-> items]

JsonList == [type |-> "list", items |-> <<>>]

\* a JSON number, string, boolean or null, by the Python type json.loads
\* gives it
JsonScalar(type, v) == [type |-> type, items |-> v]

json_loads(text) ==
    IF text.wellformed
    THEN [ok |-> TRUE, value |-> text.value]
    ELSE [ok |-> FALSE, value |-> None]

-----------------------------------------------------------------------------
\* models/state.py

AgentStep(agent_name, step_name, input, output, duration_ms, timestamp) ==
    [agent_name |-> agent_name, step_name |-> step_name, input |-> input,
     output |-> output, duration_ms |-> duration_ms, timestamp |-> timestamp]

Source(id, title, content, similarity_score) ==
    [id |-> id, title |-> title, content |-> content,
     similarity_score |-> similarity_score]

Metrics(latency_ms, token_usage) ==
    [latency_ms |-> latency_ms, token_usage |-> token_usage]

\* int((finished - started) * 1000)
millis(started, finished) == (finished - started) * 1000

-----------------------------------------------------------------------------
\* What a collaborator call gives back to the stage that awaits it.

\* an exception object: its class, whether the class derives from Exception
\* ("Exception") or only from BaseException, and str() of it
Exception(type, msg) == [type |-> type, base |-> "Exception", msg |-> msg]

NoException == [type |-> "", base |-> "", msg |-> ""]

Returned(value) == [kind |-> "return", value |-> value, exc |-> NoException]

Raised(msg) ==
    [kind |-> "raise", value |-> None, exc |-> Exception("Exception", msg)]

\* models/llm.py: OpenAIProvider.chat re-raises every failure of the
\* completion service as Exception("Chat completion failed: ...")
ChatFailure == Raised("Chat completion failed: Connection error.")

\* str(e) of the AttributeError raised by x.get on a list
NoGetAttribute == "'list' object has no attribute 'get'"

\* str(e) of the AttributeError raised by x.get on a value that is no dict
no_attribute_get(value) ==
    "'" \o value.type \o "' object has no attribute 'get'"

-----------------------------------------------------------------------------
\* agents/classifier.py

\* mutant: the parse fallback marks the three fields as unknown
ClassifierFallback_unknown ==
    Dict3("intent", "unknown", "sentiment", "unknown", "urgency", "unknown")

ClassifierFallback ==
    Dict3("intent", "general_question", "sentiment", "neutral",
          "urgency", "medium")

\* mutant: the except branch sets the fallback but appends no record
classify_except_no_record(state, msg, started, finished) ==
    [state EXCEPT !.intent = "general_question",
                  !.sentiment = "neutral",
                  !.urgency = "medium"]

\* mutant: the except branch records the error and sets no field
classify_except_no_fallback(state, msg, started, finished) ==
    LET error_step ==
            AgentStep("ClassifierAgent", "classify_request",
                      "request_text" :> state.request_text,
                      "error" :> msg,
                      millis(started, finished), finished)
    IN [state EXCEPT !.trace = Append(@, error_step)]

\* the except branch of classify
classify_except(state, msg, started, finished) ==
    LET error_step ==
            AgentStep("ClassifierAgent", "classify_request",
                      "request_text" :> state.request_text,
                      "error" :> msg,
                      millis(started, finished), finished)
    IN [state EXCEPT !.trace = Append(@, error_step),
                     !.intent = "general_question",
                     !.sentiment = "neutral",
                     !.urgency = "medium"]

\* mutant: an object that lacks a key is replaced by the three defaults
classify_all_or_nothing(state, reply, started, finished) ==
    IF reply.kind = "raise"
    THEN classify_except(state, reply.exc.msg, started, finished)
    ELSE LET parsed == json_loads(reply.value)
             classification ==
                 IF parsed.ok THEN parsed.value
                 ELSE JsonObject(ClassifierFallback)
         IN IF ~IsDict(classification)
            THEN classify_except(state, no_attribute_get(classification),
                                 started, finished)
            ELSE LET complete ==
                         {"intent", "sentiment", "urgency"}
                             \subseteq DOMAIN classification.items
                     adopted == IF complete THEN classification.items
                                ELSE ClassifierFallback
                     step ==
                         AgentStep("ClassifierAgent", "classify_request",
                                   "request_text" :> state.request_text,
                                   classification.items,
                                   millis(started, finished), finished)
                 IN [state EXCEPT
                        !.intent = adopted["intent"],
                        !.sentiment = adopted["sentiment"],
                        !.urgency = adopted["urgency"],
                        !.trace = Append(@, step)]

\* llm.chat(messages, fast=...): the call as the completion service sees it
\* (fast is False when the caller leaves it out)
chat(messages, fast) == [fn |-> "chat", messages |-> messages, fast |-> fast]

chat_message(role, content) == [role |-> role, content |-> content]

\* an f-string field {v}: a str as it is, None as the text None
format(v) == IF v = None THEN "None" ELSE v

\* the opening of the classifier's instruction text (the list of the
\* categories that follows it is Intents, Sentiments, Urgencies)
ClassifierSystemPrompt ==
    "You are a support request classifier. Analyze the user's message and classify it into the following categories:"

classify_messages(state) ==
    << chat_message("system", ClassifierSystemPrompt),
       chat_message("user", "Please classify this support request:\n\n"
                       \o format(state.request_text)) >>

\* ClassifierAgent.classify, given what llm.chat(messages, fast=True) gave
classify(state, reply, started, finished) ==
    IF reply.kind = "raise"
    THEN classify_except(state, reply.exc.msg, started, finished)
    ELSE LET parsed == json_loads(reply.value)
             classification ==
                 IF parsed.ok THEN parsed.value
                 ELSE JsonObject(ClassifierFallback)
         IN IF ~IsDict(classification)
            THEN classify_except(state, no_attribute_get(classification),
                                 started, finished)
            ELSE LET step ==
                         AgentStep("ClassifierAgent", "classify_request",
                                   "request_text" :> state.request_text,
                                   classification.items,
                                   millis(started, finished), finished)
                 IN [state EXCEPT
                        !.intent = dict_get(classification.items, "intent",
                                            "general_question"),
                        !.sentiment = dict_get(classification.items,
                                               "sentiment", "neutral"),
                        !.urgency = dict_get(classification.items, "urgency",
                                             "medium"),
                        !.trace = Append(@, step)]

-----------------------------------------------------------------------------
\* agents/retriever.py

RowKeys == {"id", "title", "content"}

\* str(e) of the KeyError raised by result["title"] and the like
MissingKey(row) ==
    IF "id" \notin DOMAIN row THEN "'id'"
    ELSE IF "title" \notin DOMAIN row THEN "'title'"
    ELSE "'content'"

\* mutant: the sources are collected in the opposite order
to_sources_reversed(search_results) ==
    [i \in 1..Len(search_results) |->
        LET row == search_results[Len(search_results) + 1 - i]
        IN Source(row["id"], row["title"], row["content"],
                  dict_get(row, "similarity", 0))]

\* the loop that converts search results to Source format
RECURSIVE to_sources(_)
to_sources(search_results) ==
    IF search_results = <<>> THEN <<>>
    ELSE LET row == Head(search_results)
         IN <<Source(row["id"], row["title"], row["content"],
                     dict_get(row, "similarity", 0))>>
            \o to_sources(Tail(search_results))

\* the "sources" list of the retriever's trace step
RECURSIVE source_summaries(_)
source_summaries(sources) ==
    IF sources = <<>> THEN <<>>
    ELSE LET s == Head(sources)
         IN <<[id |-> s.id, title |-> s.title, score |-> s.similarity_score]>>
            \o source_summaries(Tail(sources))

\* kb.search_similar(query=..., limit=5, threshold=0.7); the threshold in
\* hundredths, as the similarities are
search_call(state) ==
    [fn |-> "search_similar", query |-> state.request_text, limit |-> 5,
     threshold |-> 70]

retrieve_input(state) ==
    ("request_text" :> state.request_text) @@ ("intent" :> state.intent)

\* mutant: the except branch reports an empty search instead of the error
retrieve_except_reports_empty(state, msg, started, finished) ==
    LET step ==
            AgentStep("RetrieverAgent", "retrieve_knowledge",
                      retrieve_input(state),
                      [sources_found |-> 0, sources |-> <<>>],
                      millis(started, finished), finished)
    IN [state EXCEPT !.trace = Append(@, step),
                     !.sources = <<>>]

\* the except branch of retrieve
retrieve_except(state, msg, started, finished) ==
    LET error_step ==
            AgentStep("RetrieverAgent", "retrieve_knowledge",
                      retrieve_input(state), "error" :> msg,
                      millis(started, finished), finished)
    IN [state EXCEPT !.trace = Append(@, error_step),
                     !.sources = <<>>]

\* RetrieverAgent.retrieve, given what kb.search_similar gave
retrieve(state, reply, started, finished) ==
    IF reply.kind = "raise"
    THEN retrieve_except(state, reply.exc.msg, started, finished)
    ELSE LET search_results == reply.value
             bad == {i \in DOMAIN search_results :
                        ~(RowKeys \subseteq DOMAIN search_results[i])}
         IN IF bad # {}
            THEN retrieve_except(
                     state,
                     MissingKey(search_results[CHOOSE i \in bad :
                                                 \A j \in bad : i <= j]),
                     started, finished)
            ELSE LET sources == to_sources(search_results)
                     step ==
                         AgentStep("RetrieverAgent", "retrieve_knowledge",
                                   retrieve_input(state),
                                   [sources_found |-> Len(sources),
                                    sources |-> source_summaries(sources)],
                                   millis(started, finished), finished)
                 IN [state EXCEPT !.sources = sources,
                                  !.trace = Append(@, step)]

-----------------------------------------------------------------------------
\* agents/writer.py

Apology ==
    "I apologize, but I'm unable to generate a response at this moment. Please try again or contact our support team directly."

WriterSystemPrompt ==
    "You are a helpful customer support agent. Write a professional, empathetic response using the provided knowledge sources. Be concise, actionable, and address the customer's specific intent and urgency."

NoSourcesNotice ==
    "\n\nNo specific knowledge sources were found for this request."

RECURSIVE sources_listing(_, _)
\* the loop over enumerate(state["sources"], 1), from the i-th source on
sources_listing(sources, i) ==
    IF i > Len(sources) THEN ""
    ELSE "\n" \o ToString(i) \o ". " \o format(sources[i].title) \o "\n"
         \o format(sources[i].content) \o "\n"
         \o sources_listing(sources, i + 1)

sources_text(state) ==
    IF state.sources # <<>>
    THEN "\n\nKnowledge Sources:\n" \o sources_listing(state.sources, 1)
    ELSE NoSourcesNotice

\* the f-string user_prompt of write_response
write_user_prompt(state) ==
    "Customer Request:\n" \o format(state.request_text)
    \o "\n\nClassification:\n- Intent: "
    \o format(dict_get(state, "intent", "unknown"))
    \o "\n- Sentiment: " \o format(dict_get(state, "sentiment", "unknown"))
    \o "  \n- Urgency: " \o format(dict_get(state, "urgency", "unknown"))
    \o "\n\n" \o sources_text(state)
    \o "\n\nPlease write a helpful response:"

write_messages(state) ==
    << chat_message("system", WriterSystemPrompt),
       chat_message("user", write_user_prompt(state)) >>

write_input(state) ==
    ("request_text" :> state.request_text) @@ ("intent" :> state.intent)
    @@ ("sources_count" :> Len(state.sources))

\* response[:200] + "..." if len(response) > 200 else response
response_preview(response) ==
    IF Len(response) > 200 THEN SubSeq(response, 1, 200) \o "..."
    ELSE response

\* mutant: the except branch records the error and sets no answer
write_response_no_fallback(state, reply, started, finished) ==
    IF reply.kind = "raise"
    THEN LET error_step ==
                 AgentStep("WriterAgent", "generate_response",
                           write_input(state), "error" :> reply.exc.msg,
                           millis(started, finished), finished)
         IN [state EXCEPT !.trace = Append(@, error_step), !.answer = ""]
    ELSE [state EXCEPT !.answer = reply.value]

\* mutant: the except branch sets the apology and appends no record
write_response_unrecorded(state, reply, started, finished) ==
    IF reply.kind = "raise"
    THEN [state EXCEPT !.answer = Apology]
    ELSE LET response == reply.value
             step ==
                 AgentStep("WriterAgent", "generate_response",
                           write_input(state),
                           [response_length |-> Len(response),
                            response_preview |-> response_preview(response)],
                           millis(started, finished), finished)
         IN [state EXCEPT !.answer = response,
                          !.trace = Append(@, step)]

\* mutant: the except branch records the error and leaves the answer unset
write_response_leaves_answer(state, reply, started, finished) ==
    IF reply.kind = "raise"
    THEN LET error_step ==
                 AgentStep("WriterAgent", "generate_response",
                           write_input(state), "error" :> reply.exc.msg,
                           millis(started, finished), finished)
         IN [state EXCEPT !.trace = Append(@, error_step)]
    ELSE LET response == reply.value
             step ==
                 AgentStep("WriterAgent", "generate_response",
                           write_input(state),
                           [response_length |-> Len(response),
                            response_preview |-> response_preview(response)],
                           millis(started, finished), finished)
         IN [state EXCEPT !.answer = response,
                          !.trace = Append(@, step)]

\* WriterAgent.write_response, given what llm.chat(messages) gave
write_response(state, reply, started, finished) ==
    IF reply.kind = "raise"
    THEN LET error_step ==
                 AgentStep("WriterAgent", "generate_response",
                           write_input(state), "error" :> reply.exc.msg,
                           millis(started, finished), finished)
         IN [state EXCEPT !.trace = Append(@, error_step),
                          !.answer = Apology]
    ELSE LET response == reply.value
             step ==
                 AgentStep("WriterAgent", "generate_response",
                           write_input(state),
                           [response_length |-> Len(response),
                            response_preview |-> response_preview(response)],
                           millis(started, finished), finished)
         IN [state EXCEPT !.answer = response,
                          !.trace = Append(@, step)]

-----------------------------------------------------------------------------
\* agents/guard.py

ParseFailureIssue == "Unable to parse validation response"

SystemErrorIssue == "Validation failed due to system error"

\* mutant: unparsable text is treated like a failed call
GuardFallback_restrictive ==
    Dict3("is_safe", False, "issues", <<SystemErrorIssue>>, "confidence", 0)

\* confidence is kept in hundredths
GuardFallback ==
    Dict3("is_safe", True, "issues", <<ParseFailureIssue>>, "confidence", 50)

\* the opening of the validator's instruction text
GuardSystemPrompt ==
    "You are a safety and compliance validator for customer support responses. Analyze the generated response and check for:"

\* json.dumps of a str or None (the texts here need no escape)
json_dumps_str(v) == IF v = None THEN "null" ELSE "\"" \o v \o "\""

RECURSIVE json_dumps_items(_, _)
json_dumps_items(sources, i) ==
    "  {\n    \"title\": " \o json_dumps_str(sources[i].title)
    \o ",\n    \"content\": " \o json_dumps_str(sources[i].content)
    \o "\n  }"
    \o (IF i = Len(sources) THEN "\n"
        ELSE ",\n" \o json_dumps_items(sources, i + 1))

\* json.dumps([{'title': ..., 'content': ...} for s in sources], indent=2)
json_dumps(sources) ==
    IF sources = <<>> THEN "[]"
    ELSE "[\n" \o json_dumps_items(sources, 1) \o "]"

\* the f-string user_prompt of validate_response
validate_user_prompt(state) ==
    "Original Request:\n" \o format(state.request_text)
    \o "\n\nGenerated Response:\n" \o format(state.answer)
    \o "\n\nAvailable Knowledge Sources:\n" \o json_dumps(state.sources)
    \o "\n\nPlease validate this response:"

validate_messages(state) ==
    << chat_message("system", GuardSystemPrompt),
       chat_message("user", validate_user_prompt(state)) >>

validate_input(state) ==
    ("request_text" :> state.request_text)
    @@ ("response_length" :> Len(state.answer))
    @@ ("sources_count" :> Len(state.sources))

\* mutant: the except branch also withdraws the answer
validate_except_blanks_answer(state, msg, started, finished) ==
    LET error_step ==
            AgentStep("GuardAgent", "validate_response",
                      validate_input(state), "error" :> msg,
                      millis(started, finished), finished)
    IN [state EXCEPT !.trace = Append(@, error_step),
                     !.answer = "",
                     !.is_safe = False,
                     !.validation_reasons = <<SystemErrorIssue>>]

\* mutant: the except branch lets the response pass
validate_except_permissive(state, msg, started, finished) ==
    LET error_step ==
            AgentStep("GuardAgent", "validate_response",
                      validate_input(state), "error" :> msg,
                      millis(started, finished), finished)
    IN [state EXCEPT !.trace = Append(@, error_step),
                     !.is_safe = True,
                     !.validation_reasons = <<>>]

\* the except branch of validate_response
validate_except(state, msg, started, finished) ==
    LET error_step ==
            AgentStep("GuardAgent", "validate_response",
                      validate_input(state), "error" :> msg,
                      millis(started, finished), finished)
    IN [state EXCEPT !.trace = Append(@, error_step),
                     !.is_safe = False,
                     !.validation_reasons = <<SystemErrorIssue>>]

\* mutant: JSON that is no object is taken like text that is not JSON
validate_response_nonobject_as_unparsable(state, reply, started, finished) ==
    IF reply.kind = "raise"
    THEN validate_except(state, reply.exc.msg, started, finished)
    ELSE LET parsed == json_loads(reply.value)
             validation ==
                 IF parsed.ok /\ IsDict(parsed.value) THEN parsed.value
                 ELSE JsonObject(GuardFallback)
             step ==
                 AgentStep("GuardAgent", "validate_response",
                           validate_input(state), validation.items,
                           millis(started, finished), finished)
         IN [state EXCEPT
                !.is_safe = dict_get(validation.items, "is_safe", False),
                !.validation_reasons =
                    dict_get(validation.items, "issues", <<>>),
                !.trace = Append(@, step)]

\* mutant: an object without is_safe counts as safe
validate_response_safe_by_default(state, reply, started, finished) ==
    IF reply.kind = "raise"
    THEN validate_except(state, reply.exc.msg, started, finished)
    ELSE LET parsed == json_loads(reply.value)
             validation ==
                 IF parsed.ok THEN parsed.value
                 ELSE JsonObject(GuardFallback)
         IN IF ~IsDict(validation)
            THEN validate_except(state, no_attribute_get(validation),
                                 started, finished)
            ELSE LET step ==
                         AgentStep("GuardAgent", "validate_response",
                                   validate_input(state), validation.items,
                                   millis(started, finished), finished)
                 IN [state EXCEPT
                        !.is_safe = dict_get(validation.items, "is_safe",
                                             True),
                        !.validation_reasons =
                            dict_get(validation.items, "issues", <<>>),
                        !.trace = Append(@, step)]

\* mutant: an answer judged unsafe is withheld
validate_response_withholds_unsafe(state, reply, started, finished) ==
    IF reply.kind = "raise"
    THEN validate_except(state, reply.exc.msg, started, finished)
    ELSE LET parsed == json_loads(reply.value)
             validation ==
                 IF parsed.ok THEN parsed.value
                 ELSE JsonObject(GuardFallback)
         IN IF ~IsDict(validation)
            THEN validate_except(state, no_attribute_get(validation),
                                 started, finished)
            ELSE LET step ==
                         AgentStep("GuardAgent", "validate_response",
                                   validate_input(state), validation.items,
                                   millis(started, finished), finished)
                     is_safe == dict_get(validation.items, "is_safe", False)
                 IN [state EXCEPT
                        !.is_safe = is_safe,
                        !.validation_reasons =
                            dict_get(validation.items, "issues", <<>>),
                        !.answer = IF is_safe = False THEN Apology ELSE @,
                        !.trace = Append(@, step)]

\* GuardAgent.validate_response, given what llm.chat(messages) gave
validate_response(state, reply, started, finished) ==
    IF reply.kind = "raise"
    THEN validate_except(state, reply.exc.msg, started, finished)
    ELSE LET parsed == json_loads(reply.value)
             validation ==
                 IF parsed.ok THEN parsed.value
                 ELSE JsonObject(GuardFallback)
         IN IF ~IsDict(validation)
            THEN validate_except(state, no_attribute_get(validation),
                                 started, finished)
            ELSE LET step ==
                         AgentStep("GuardAgent", "validate_response",
                                   validate_input(state), validation.items,
                                   millis(started, finished), finished)
                 IN [state EXCEPT
                        !.is_safe = dict_get(validation.items, "is_safe",
                                             False),
                        !.validation_reasons =
                            dict_get(validation.items, "issues", <<>>),
                        !.trace = Append(@, step)]

-----------------------------------------------------------------------------
\* agents/logger.py

\* str(e) of the TypeError raised by len(None)
NoLen == "object of type 'NoneType' has no len()"

RECURSIVE content_chars(_)
\* sum(len(source.get("content", "")) for source in state["sources"])
content_chars(sources) ==
    IF sources = <<>> THEN 0
    ELSE Len(Head(sources).content) + content_chars(Tail(sources))

max(a, b) == IF a >= b THEN a ELSE b

\* len() is applied to None: the answer or the content of a source
estimate_raises(state) ==
    \/ state.answer = None
    \/ \E i \in DOMAIN state.sources : state.sources[i].content = None

\* mutant: the estimate is returned as computed, without the minimum
_estimate_token_usage_unfloored(state) ==
    LET base_tokens == 50
        request_tokens == Len(state.request_text) \div 4
        response_tokens == Len(state.answer) \div 4
        sources_tokens == content_chars(state.sources) \div 4
    IN (Len(state.trace) * base_tokens) + request_tokens
       + response_tokens + sources_tokens

\* LoggerAgent._estimate_token_usage, where it does not raise
_estimate_token_usage(state) ==
    LET base_tokens == 50
        request_tokens == Len(state.request_text) \div 4
        response_tokens == Len(state.answer) \div 4
        sources_tokens == content_chars(state.sources) \div 4
        estimated == (Len(state.trace) * base_tokens) + request_tokens
                     + response_tokens + sources_tokens
    IN max(estimated, 100)

\* mutant: success looks at the answer only
_generate_evaluation_ignores_verdict(state) ==
    [success |-> bool(state.answer),
     agents_executed |-> Len(state.trace),
     sources_found |-> Len(state.sources),
     classification_completed |-> bool(state.intent),
     retrieval_completed |-> TRUE,
     response_generated |-> bool(state.answer),
     validation_passed |-> state.is_safe,
     issues |-> IF ~bool(state.is_safe) THEN state.validation_reasons
                ELSE <<>>]

\* LoggerAgent._generate_evaluation
_generate_evaluation(state) ==
    [success |-> bool(state.answer) /\ bool(state.is_safe),
     agents_executed |-> Len(state.trace),
     sources_found |-> Len(state.sources),
     classification_completed |-> bool(state.intent),
     retrieval_completed |-> TRUE,
     response_generated |-> bool(state.answer),
     validation_passed |-> state.is_safe,
     issues |-> IF ~bool(state.is_safe) THEN state.validation_reasons
                ELSE <<>>]

\* mutant: the record counts itself among the steps
log_input_counts_own_record(state) ==
    [total_steps |-> Len(state.trace) + 1,
     sources_used |-> Len(state.sources),
     response_generated |-> bool(state.answer),
     validation_passed |-> state.is_safe]

log_input(state) ==
    [total_steps |-> Len(state.trace),
     sources_used |-> Len(state.sources),
     response_generated |-> bool(state.answer),
     validation_passed |-> state.is_safe]

\* mutant: the logger keeps only its own record in the trace
log_and_evaluate_rewrites_trace(state, clock) ==
    LET final_metrics ==
            Metrics(millis(state.start_time, clock),
                    IF estimate_raises(state) THEN 0
                    ELSE _estimate_token_usage(state))
        final_step ==
            AgentStep("LoggerAgent", "final_evaluation", log_input(state),
                      [final_metrics |-> final_metrics], 0, clock)
    IN [state EXCEPT !.trace = <<final_step>>, !.metrics = final_metrics]

\* mutant: the except branch sets the metrics and appends no record
log_and_evaluate_error_unrecorded(state, clock) ==
    LET total_latency == millis(state.start_time, clock)
    IN IF estimate_raises(state)
       THEN [state EXCEPT !.metrics = Metrics(total_latency, 0)]
       ELSE LET final_metrics ==
                    Metrics(total_latency, _estimate_token_usage(state))
                final_step ==
                    AgentStep("LoggerAgent", "final_evaluation",
                              log_input(state),
                              [final_metrics |-> final_metrics,
                               evaluation |-> _generate_evaluation(state)],
                              0, clock)
            IN [state EXCEPT !.trace = Append(@, final_step),
                             !.metrics = final_metrics]

\* LoggerAgent.log_and_evaluate; the stage awaits nothing, so it starts and
\* finishes at the same clock reading
log_and_evaluate(state, clock) ==
    LET total_latency == millis(state.start_time, clock)
    IN IF estimate_raises(state)
       THEN LET error_step ==
                    AgentStep("LoggerAgent", "final_evaluation",
                              log_input(state), "error" :> NoLen, 0, clock)
            IN [state EXCEPT !.trace = Append(@, error_step),
                             !.metrics = Metrics(total_latency, 0)]
       ELSE LET final_metrics ==
                    Metrics(total_latency, _estimate_token_usage(state))
                final_step ==
                    AgentStep("LoggerAgent", "final_evaluation",
                              log_input(state),
                              [final_metrics |-> final_metrics,
                               evaluation |-> _generate_evaluation(state)],
                              0, clock)
            IN [state EXCEPT !.trace = Append(@, final_step),
                             !.metrics = final_metrics]

-----------------------------------------------------------------------------
\* What the collaborators can give back, by stage.

\* Each list below is a tuple, not a set: its members are Python values of
\* different types.

ClassifierObjects ==
    << Dict3("intent", "technical_issue", "sentiment", "negative",
             "urgency", "high"),
       "intent" :> "billing_inquiry",
       EmptyDict,
       Dict3("intent", "other", "sentiment", "mixed", "urgency", "critical"),
       Dict3("intent", None, "sentiment", "neutral", "urgency", "low") >>

ClassifierReplies ==
    [i \in DOMAIN ClassifierObjects |->
        Returned(JsonText(JsonObject(ClassifierObjects[i])))]
    \o << Returned(JsonText(JsonList)), Returned(Malformed), ChatFailure >>

\* rows of the knowledge store in rank order; similarity in hundredths
RankedRows ==
    << ("id" :> "demo-1") @@ ("title" :> "Password Reset Guide")
       @@ ("content" :> "Click the 'Forgot Password' link on the login page.")
       @@ ("similarity" :> 85),
       ("id" :> "demo-2") @@ ("title" :> "Billing and Subscription")
       @@ ("content" :> "Refunds are available within 30 days.")
       @@ ("similarity" :> 75),
       ("id" :> "doc-3") @@ ("title" :> "Account Security")
       @@ ("content" :> "Enable two-factor authentication.") >>

\* a row without a title, and a row whose content is null
UntitledRow == ("id" :> "doc-4") @@ ("content" :> "Untitled note.")

NullContentRow ==
    ("id" :> "doc-5") @@ ("title" :> "Draft") @@ ("content" :> None)
    @@ ("similarity" :> 80)

BackendReplies ==
    [n \in 1..(1 + IF MaxResults < Len(RankedRows) THEN MaxResults
                   ELSE Len(RankedRows)) |->
        Returned(SubSeq(RankedRows, 1, n - 1))]
    \o << Returned(<<UntitledRow>>), Returned(<<NullContentRow>>),
          Raised("Embedding generation failed: Connection error.") >>

\* services/knowledge_base.py: search_similar returns response.data, or []
\* when there is none or when anything below it raised
search_similar(backend) ==
    IF backend.kind = "raise" THEN Returned(<<>>)
    ELSE Returned(backend.value)

WriterReplies ==
    << Returned(""),
       Returned("Click the 'Forgot Password' link on the login page."),
       ChatFailure >>

GuardObjects ==
    << Dict3("is_safe", True, "issues", <<>>, "confidence", 90),
       Dict3("is_safe", False, "issues", <<"Unsupported claim">>,
             "confidence", 80),
       EmptyDict,
       "is_safe" :> None >>

GuardReplies ==
    [i \in DOMAIN GuardObjects |->
        Returned(JsonText(JsonObject(GuardObjects[i])))]
    \o << Returned(JsonText(JsonList)), Returned(Malformed), ChatFailure >>

RequestTexts == {"", "I need to reset my password"}

\* seconds a collaborator call may take: it answers in time, or it is still
\* running when the step's deadline passes
CallSeconds == (0..MaxCallSeconds) \cup {AGENT_STEP_TIMEOUT_SECONDS + 1}

-----------------------------------------------------------------------------
\* agents/workflow.py

Runs == {"r1", "r2"}

\* the runs the sequential specification serves
Served == {"r1"}

\* mutant: retrieval is skipped
next_node_skips_retrieve(node) ==
    CASE node = "classify" -> "write"
      [] node = "retrieve" -> "write"
      [] node = "write" -> "validate"
      [] node = "validate" -> "log"
      [] node = "log" -> "END"

\* set_entry_point and add_edge: the node that follows each node
next_node(node) ==
    CASE node = "classify" -> "retrieve"
      [] node = "retrieve" -> "write"
      [] node = "write" -> "validate"
      [] node = "validate" -> "log"
      [] node = "log" -> "END"

create_initial_state(request_text, clock) ==
    [request_text |-> request_text,
     intent |-> None,
     sentiment |-> None,
     urgency |-> None,
     sources |-> <<>>,
     answer |-> None,
     is_safe |-> None,
     validation_reasons |-> None,
     trace |-> <<>>,
     metrics |-> Metrics(0, 0),
     start_time |-> clock]

\* what asyncio.wait_for raises; str() of it is empty
TimeoutError == Exception("TimeoutError", "")

\* what wait_for throws into the agent method at its await when the
\* deadline passes; the class derives from BaseException only
CancelledError ==
    [type |-> "CancelledError", base |-> "BaseException", msg |-> ""]

\* mutant: the agent methods catch BaseException
stage_catches_everything(node, e) == TRUE

\* mutant: the agent methods catch nothing
stage_catches_nothing(node, e) == FALSE

\* every agent method wraps its collaborator call in try / except Exception
stage_catches(node, e) == e.base = "Exception"

\* _wrap_agent: asyncio.wait_for(func(state), timeout) gives up on a call
\* that is still running after the timeout
timed_out(seconds) == seconds > AGENT_STEP_TIMEOUT_SECONDS

\* RetryPolicy(max_attempts=AGENT_MAX_RETRIES) keeps the default retry_on,
\* which retries no OSError; asyncio.TimeoutError is one from Python 3.11 on
retry_on(exc) == ~(exc.type = "TimeoutError" /\ timeoutIsOSError)

\* mutant: the retry loop has no bound
retry_policy_unbounded(exc, failed) == retry_on(exc)

\* the retry loop of a node: after `failed` failed attempts the exception
\* is raised again unless retry_on accepts it and attempts are left
retry_policy(exc, failed) == retry_on(exc) /\ failed < AGENT_MAX_RETRIES

\* mutant: the metrics of the result are the initial ones
success_result_zero_metrics(final_state) ==
    [answer |-> final_state.answer,
     sources |-> final_state.sources,
     trace |-> final_state.trace,
     metrics |-> Metrics(0, 0)]

\* the return statement of process_request
success_result(final_state) ==
    [answer |-> final_state.answer,
     sources |-> final_state.sources,
     trace |-> final_state.trace,
     metrics |-> final_state.metrics]

ErrorPrefix == "An error occurred while processing your request: "

\* the except branch of process_request
error_result(request_text, e, clock) ==
    [answer |-> ErrorPrefix \o e.msg,
     sources |-> <<>>,
     trace |-> <<AgentStep("Workflow", "error",
                           "request_text" :> request_text,
                           "error" :> e.msg, 0, clock)>>,
     metrics |-> Metrics(0, 0)]

\* mutant: the except branch catches ValueError only
caught_ValueError_only(e) == e.type = "ValueError"

\* except Exception as e
caught(e) == e.base = "Exception"

\* one entry of the history: the node attempted, how its collaborator call
\* ended (return, raise, timeout; none for the log node), whether the
\* attempt ended with an exception leaving the node, what the await inside
\* the agent method gave, and the clock readings at its start and end
Attempt(node, call, outcome, failed, given, started, finished) ==
    [node |-> node, call |-> call, outcome |-> outcome, failed |-> failed,
     given |-> given, started |-> started, finished |-> finished]

\* no method is being applied on its own
NoCalc == [op |-> "none", input |-> None, output |-> None]

\* the workflow and the application as constructed: no request so far
Constructed ==
    /\ calls = [r \in {} |-> None]
    /\ pc = [r \in Runs |-> "idle"]
    /\ st = [r \in {} |-> None]
    /\ attempts = [r \in Runs |-> 0]
    /\ result = [r \in {} |-> None]
    /\ ran = [r \in Runs |-> <<>>]
    /\ now = 0
    /\ http = [phase |-> "idle", request_text |-> None, exc |-> NoException,
               response |-> None]
    /\ timeoutIsOSError \in BOOLEAN

Init ==
    /\ Constructed
    /\ calc = NoCalc

\* mutant: a call that finds another call's state works on a copy of it
ProcessRequest_reuses_state(r) ==
    /\ pc[r] = "idle"
    /\ \E request_text \in RequestTexts :
           /\ calls' = (r :> [request_text |-> request_text, at |-> now])
                        @@ calls
           /\ st' = (r :> IF DOMAIN st = {}
                          THEN create_initial_state(request_text, now)
                          ELSE [st[CHOOSE q \in DOMAIN st : TRUE] EXCEPT
                                   !.request_text = request_text,
                                   !.start_time = now])
                     @@ st
    /\ pc' = [pc EXCEPT ![r] = "classify"]
    /\ UNCHANGED <<attempts, result, ran, now, http, calc, timeoutIsOSError>>

\* process_request(request_text) up to the first await of the graph
process_request(r, request_text) ==
    /\ pc[r] = "idle"
    /\ calls' = (r :> [request_text |-> request_text, at |-> now]) @@ calls
    /\ st' = (r :> create_initial_state(request_text, now)) @@ st
    /\ pc' = [pc EXCEPT ![r] = "classify"]
    /\ UNCHANGED <<attempts, result, ran, now, http, calc, timeoutIsOSError>>

\* a call of process_request made on the workflow directly
ProcessRequest(r) ==
    \E request_text \in RequestTexts : process_request(r, request_text)

\* mutant: the except branch hands back what the state holds so far
Escapes_keeps_partial_state(r, e, clock) ==
    /\ result' = (r :> [error_result(calls[r].request_text, e, clock) EXCEPT
                           !.sources = st[r].sources,
                           !.trace = st[r].trace \o @])
                  @@ result
    /\ pc' = [pc EXCEPT ![r] = "done"]

\* an exception leaves the graph: the except branch of process_request
Escapes(r, e, clock) ==
    IF caught(e)
    THEN /\ result' = (r :> error_result(calls[r].request_text, e, clock))
                      @@ result
         /\ pc' = [pc EXCEPT ![r] = "done"]
    ELSE /\ pc' = [pc EXCEPT ![r] = "raised"]
         /\ UNCHANGED result

\* add_node: the agent method behind each node that awaits a collaborator
\* the call of its collaborator that each of these agent methods awaits
node_call(node, state) ==
    CASE node = "classify" -> chat(classify_messages(state), TRUE)
      [] node = "retrieve" -> search_call(state)
      [] node = "write" -> chat(write_messages(state), FALSE)
      [] node = "validate" -> chat(validate_messages(state), FALSE)

\* log_and_evaluate awaits nothing
NoCall == [fn |-> "none"]

node_func(node, state, reply, started, finished) ==
    CASE node = "classify" -> classify(state, reply, started, finished)
      [] node = "retrieve" -> retrieve(state, reply, started, finished)
      [] node = "write" -> write_response(state, reply, started, finished)
      [] node = "validate" ->
             validate_response(state, reply, started, finished)

\* mutant: an attempt cut off at the deadline leaves a record in the trace
RunNode_records_failed_attempt(r, node, reply, seconds) ==
    LET given == IF timed_out(seconds)
                 THEN [kind |-> "raise", value |-> None,
                       exc |-> CancelledError]
                 ELSE reply
        raised ==
            IF given.kind = "raise" /\ ~stage_catches(node, given.exc)
            THEN IF timed_out(seconds) THEN TimeoutError ELSE given.exc
            ELSE NoException
        outcome == IF timed_out(seconds) THEN "timeout" ELSE reply.kind
        clock == now + (IF timed_out(seconds) THEN AGENT_STEP_TIMEOUT_SECONDS
                        ELSE seconds)
    IN /\ pc[r] = node
       /\ now' = clock
       /\ ran' = [ran EXCEPT
                     ![r] = Append(@, Attempt(node, node_call(node, st[r]),
                                              outcome, raised # NoException,
                                              given, now, clock))]
       /\ IF raised # NoException
          THEN /\ attempts' = [attempts EXCEPT ![r] = @ + 1]
               /\ st' = [st EXCEPT
                            ![r].trace =
                                Append(@, AgentStep("Workflow", "timeout",
                                                    EmptyDict, EmptyDict,
                                                    0, clock))]
               /\ IF retry_policy(raised, attempts[r] + 1)
                  THEN UNCHANGED <<pc, result>>
                  ELSE Escapes(r, raised, clock)
          ELSE /\ st' = [st EXCEPT ![r] = node_func(node, @, given, now, clock)]
               /\ attempts' = [attempts EXCEPT ![r] = 0]
               /\ pc' = [pc EXCEPT ![r] = next_node(node)]
               /\ UNCHANGED result
       /\ UNCHANGED <<calls, http, calc, timeoutIsOSError>>

\* one attempt of a node that awaits a collaborator for `seconds`;
\* `reply` is what the collaborator gives
RunNode(r, node, reply, seconds) ==
    LET \* what the await inside the agent method gives
        given == IF timed_out(seconds)
                 THEN [kind |-> "raise", value |-> None,
                       exc |-> CancelledError]
                 ELSE reply
        \* the exception the wrapped node ends with, if any
        raised ==
            IF given.kind = "raise" /\ ~stage_catches(node, given.exc)
            THEN IF timed_out(seconds) THEN TimeoutError ELSE given.exc
            ELSE NoException
        outcome == IF timed_out(seconds) THEN "timeout" ELSE reply.kind
        clock == now + (IF timed_out(seconds) THEN AGENT_STEP_TIMEOUT_SECONDS
                        ELSE seconds)
    IN /\ pc[r] = node
       /\ now' = clock
       /\ ran' = [ran EXCEPT
                     ![r] = Append(@, Attempt(node, node_call(node, st[r]),
                                              outcome, raised # NoException,
                                              given, now, clock))]
       /\ IF raised # NoException
          THEN /\ attempts' = [attempts EXCEPT ![r] = @ + 1]
               /\ UNCHANGED st
               /\ IF retry_policy(raised, attempts[r] + 1)
                  THEN UNCHANGED <<pc, result>>
                  ELSE Escapes(r, raised, clock)
          ELSE /\ st' = [st EXCEPT ![r] = node_func(node, @, given, now, clock)]
               /\ attempts' = [attempts EXCEPT ![r] = 0]
               /\ pc' = [pc EXCEPT ![r] = next_node(node)]
               /\ UNCHANGED result
       /\ UNCHANGED <<calls, http, calc, timeoutIsOSError>>

Classify(r) ==
    \E i \in DOMAIN ClassifierReplies, seconds \in CallSeconds :
        RunNode(r, "classify", ClassifierReplies[i], seconds)

Retrieve(r) ==
    \E i \in DOMAIN BackendReplies, seconds \in CallSeconds :
        RunNode(r, "retrieve", search_similar(BackendReplies[i]), seconds)

Write(r) ==
    \E i \in DOMAIN WriterReplies, seconds \in CallSeconds :
        RunNode(r, "write", WriterReplies[i], seconds)

Validate(r) ==
    \E i \in DOMAIN GuardReplies, seconds \in CallSeconds :
        RunNode(r, "validate", GuardReplies[i], seconds)

\* the log node awaits nothing, so its deadline cannot pass
Log(r) ==
    /\ pc[r] = "log"
    /\ st' = [st EXCEPT ![r] = log_and_evaluate(@, now)]
    /\ ran' = [ran EXCEPT ![r] = Append(@, Attempt("log", NoCall, "none", FALSE,
                                                Returned(None), now, now))]
    /\ attempts' = [attempts EXCEPT ![r] = 0]
    /\ pc' = [pc EXCEPT ![r] = next_node("log")]
    /\ UNCHANGED <<calls, result, now, http, calc, timeoutIsOSError>>

\* ainvoke returns the final state and process_request returns
Return(r) ==
    /\ pc[r] = "END"
    /\ result' = (r :> success_result(st[r])) @@ result
    /\ pc' = [pc EXCEPT ![r] = "done"]
    /\ UNCHANGED <<calls, st, attempts, ran, now, http, calc, timeoutIsOSError>>

Next ==
    \E r \in Served :
        \/ ProcessRequest(r)
        \/ Classify(r)
        \/ Retrieve(r)
        \/ Write(r)
        \/ Validate(r)
        \/ Log(r)
        \/ Return(r)

Spec == Init /\ [][Next]_vars


-----------------------------------------------------------------------------
\* Concurrent calls of process_request on one AgentWorkflow.  The calls are
\* coroutines of one event loop: a call gives up control only at the await
\* of a collaborator, and between two awaits an agent method works on its
\* `state` argument and its locals only, so one attempt of a node is one
\* step here as well.  Each call draws its collaborator outcomes from a
\* part of the lists above.

\* what search_similar gives the retriever for each answer of the backend
SearchReplies ==
    [i \in DOMAIN BackendReplies |-> search_similar(BackendReplies[i])]

\* a call that answers at once, and one that is cut off at the deadline
Prompt == {0}

Slow == {AGENT_STEP_TIMEOUT_SECONDS + 1}

\* one attempt of a node, its collaborator outcome drawn from choice and
\* the seconds the call takes from durations
ConcurrentNode(r, node, replies, choice, durations) ==
    \E i \in choice, seconds \in durations :
        RunNode(r, node, replies[i], seconds)

ConcurrentNext ==
    \E r \in Runs :
        \/ ProcessRequest(r)
        \/ ConcurrentNode(r, "classify", ClassifierReplies,
                          {1, Len(ClassifierReplies)}, Prompt)
        \/ ConcurrentNode(r, "retrieve", SearchReplies,
                          {2, Len(SearchReplies) - 2}, Prompt)
        \/ ConcurrentNode(r, "write", WriterReplies, {2, Len(WriterReplies)},
                          Prompt \cup Slow)
        \/ ConcurrentNode(r, "validate", GuardReplies, {2}, Prompt)
        \/ Log(r)
        \/ Return(r)

ConcurrentSpec == Init /\ [][ConcurrentNext]_vars

-----------------------------------------------------------------------------
\* One call of process_request under fair scheduling.  The event loop runs
\* every coroutine that is ready, and an awaited collaborator call returns,
\* raises or is cut off by asyncio.wait_for: a call that can take a step
\* eventually takes one.  Every node sees a call that returns, one that
\* leads to its except branch and one that runs into the deadline.
LiveNext ==
    \E r \in Served :
        \/ ProcessRequest(r)
        \/ ConcurrentNode(r, "classify", ClassifierReplies,
                          {1, Len(ClassifierReplies)}, CallSeconds)
        \/ ConcurrentNode(r, "retrieve", SearchReplies,
                          {2, Len(SearchReplies) - 2, Len(SearchReplies) - 1},
                          CallSeconds)
        \/ ConcurrentNode(r, "write", WriterReplies, DOMAIN WriterReplies,
                          CallSeconds)
        \/ ConcurrentNode(r, "validate", GuardReplies,
                          {1, Len(GuardReplies)}, CallSeconds)
        \/ Log(r)
        \/ Return(r)

LiveSpec == Init /\ [][LiveNext]_vars /\ WF_vars(LiveNext)

-----------------------------------------------------------------------------
\* main.py: the POST /process endpoint, process_support_request, in front of
\* the module's one AgentWorkflow.  One request is followed from its arrival
\* to its response; the call it makes is run r1.

Whitespace == {" ", "\t", "\n", "\r"}

RECURSIVE lstrip(_)
lstrip(s) ==
    IF Len(s) > 0 /\ SubSeq(s, 1, 1) \in Whitespace
    THEN lstrip(SubSeq(s, 2, Len(s)))
    ELSE s

RECURSIVE rstrip(_)
rstrip(s) ==
    IF Len(s) > 0 /\ SubSeq(s, Len(s), Len(s)) \in Whitespace
    THEN rstrip(SubSeq(s, 1, Len(s) - 1))
    ELSE s

\* mutant: strip leaves the text as it is
strip_nothing(s) == s

\* str.strip()
strip(s) == rstrip(lstrip(s))

HTTPException(status_code, code, message) ==
    [type |-> "HTTPException", base |-> "Exception", msg |-> "",
     status_code |-> status_code,
     detail |-> [code |-> code, message |-> message]]

\* the exception of the input validation
EmptyRequestText ==
    HTTPException(400, "EMPTY_REQUEST_TEXT", "Request text cannot be empty")

\* the exception of the last except clause
WorkflowError ==
    HTTPException(500, "WORKFLOW_ERROR",
                  "An error occurred while processing your request. Please try again.")

\* mutant: one except clause maps every exception
handler_except_maps_all(e) == WorkflowError

\* the except clauses of the endpoint: the exception that leaves it
handler_except(e) ==
    IF e.type = "HTTPException" THEN e ELSE WorkflowError

\* the response FastAPI sends for an HTTPException
error_response(e) ==
    [status_code |-> e.status_code, body |-> [detail |-> e.detail]]

\* ProcessResponse(**result) accepts the result: answer is a str and every
\* source has a str id, title and content
ResponseFits(res) ==
    /\ res.answer # None
    /\ \A i \in DOMAIN res.sources :
           /\ res.sources[i].id # None
           /\ res.sources[i].title # None
           /\ res.sources[i].content # None

\* what pydantic raises otherwise
ValidationError ==
    Exception("ValidationError", "1 validation error for ProcessResponse")

\* what the workflow double of tests/unit/test_api.py raises
TestError == Exception("Exception", "Test error")

\* request texts posted to the endpoint
PostedTexts ==
    {"", "   \n\t   ", " reset my password ", "I need to reset my password"}

\* the endpoint is called
Post ==
    /\ http.phase = "idle"
    /\ \E text \in PostedTexts :
           http' = [http EXCEPT !.phase = "received", !.request_text = text]
    /\ UNCHANGED <<calls, pc, st, attempts, result, ran, now, calc,
                   timeoutIsOSError>>

\* the input validation raises and the exception leaves the endpoint
RejectEmpty ==
    /\ http.phase = "received"
    /\ pc["r1"] = "idle"
    /\ strip(http.request_text) = ""
    /\ http' = [http EXCEPT
                   !.phase = "responded",
                   !.exc = EmptyRequestText,
                   !.response = error_response(
                                    handler_except(EmptyRequestText))]
    /\ UNCHANGED <<calls, pc, st, attempts, result, ran, now, calc,
                   timeoutIsOSError>>

\* the input validation passes and workflow.process_request is awaited
AwaitWorkflow ==
    /\ http.phase = "received"
    /\ strip(http.request_text) # ""
    /\ process_request("r1", http.request_text)

\* the awaited call raises (the workflow is the double of the unit test)
WorkflowRaises ==
    /\ http.phase = "received"
    /\ pc["r1"] = "idle"
    /\ strip(http.request_text) # ""
    /\ http' = [http EXCEPT
                   !.phase = "responded",
                   !.exc = TestError,
                   !.response = error_response(handler_except(TestError))]
    /\ UNCHANGED <<calls, pc, st, attempts, result, ran, now, calc,
                   timeoutIsOSError>>

\* the awaited call returned: return ProcessResponse(**result)
Respond ==
    /\ http.phase = "received"
    /\ pc["r1"] = "done"
    /\ http' = IF ResponseFits(result["r1"])
               THEN [http EXCEPT
                        !.phase = "responded",
                        !.response = [status_code |-> 200,
                                      body |-> result["r1"]]]
               ELSE [http EXCEPT
                        !.phase = "responded",
                        !.exc = ValidationError,
                        !.response = error_response(
                                         handler_except(ValidationError))]
    /\ UNCHANGED <<calls, pc, st, attempts, result, ran, now, calc,
                   timeoutIsOSError>>

HttpNext ==
    \/ Post
    \/ RejectEmpty
    \/ AwaitWorkflow
    \/ WorkflowRaises
    \/ ConcurrentNode("r1", "classify", ClassifierReplies,
                      {1, Len(ClassifierReplies)}, Prompt)
    \/ ConcurrentNode("r1", "retrieve", SearchReplies,
                      {2, Len(SearchReplies) - 1}, Prompt)
    \/ ConcurrentNode("r1", "write", WriterReplies, DOMAIN WriterReplies,
                      Prompt \cup Slow)
    \/ ConcurrentNode("r1", "validate", GuardReplies, {1, 2}, Prompt)
    \/ Log("r1")
    \/ Return("r1")
    \/ Respond

HttpSpec == Init /\ [][HttpNext]_vars

-----------------------------------------------------------------------------
\* Vocabulary of the properties.

StageAgents ==
    <<"ClassifierAgent", "RetrieverAgent", "WriterAgent", "GuardAgent",
      "LoggerAgent">>

NodeOrder == <<"classify", "retrieve", "write", "validate", "log">>

AgentNames(trace) == [i \in DOMAIN trace |-> trace[i].agent_name]

Last(seq) == seq[Len(seq)]

ResultFields == {"answer", "sources", "trace", "metrics"}

\* the run has returned
Finished(r) == r \in DOMAIN result

\* the result is the one synthesized by the except branch
IsErrorResult(res) ==
    /\ Len(res.trace) = 1
    /\ res.trace[1].agent_name = "Workflow"
    /\ res.trace[1].step_name = "error"

\* the last attempt of the run ended with an exception that was not retried
Escaped(r) ==
    /\ pc[r] \in {"done", "raised"}
    /\ ran[r] # <<>>
    /\ Last(ran[r]).failed

\* the attempts of the run whose node ran to completion, in order
Completed(r) == SelectSeq(ran[r], LAMBDA a : ~a.failed)

\* the attempts whose collaborator call ended in the given way
Outcomes(r, node, outcome) ==
    {i \in DOMAIN ran[r] : ran[r][i].node = node /\ ran[r][i].outcome = outcome}

-----------------------------------------------------------------------------
\* C1: whatever the request text and whatever each collaborator call does
\* (answers, answers with malformed text, raises, runs into the deadline),
\* process_request ends by returning a record with exactly the fields
\* answer, sources, trace and metrics; no exception leaves it.
C1_AlwaysReturnsResult ==
    \A r \in Runs :
        /\ pc[r] # "raised"
        /\ Finished(r) <=> pc[r] = "done"
        /\ Finished(r) => DOMAIN result[r] = ResultFields

\* a run that saw a raised call and a deadline, and ended on the error path
C1_Witness ==
    /\ Finished("r1")
    /\ IsErrorResult(result["r1"])
    /\ Outcomes("r1", "classify", "raise") # {}
    /\ Outcomes("r1", "validate", "timeout") # {}

\* C2: the trace of a returned result holds either exactly five records
\* named after the five agents, or exactly the one Workflow/error record;
\* this also holds for runs in which a node was retried.
C2_TraceShape ==
    \A r \in DOMAIN result :
        LET trace == result[r].trace
        IN \/ /\ Len(trace) = 5
              /\ {trace[i].agent_name : i \in DOMAIN trace}
                 = {StageAgents[i] : i \in DOMAIN StageAgents}
           \/ IsErrorResult(result[r])

\* a five-record result of a run in which a node was retried
C2_Witness ==
    /\ Finished("r1")
    /\ Len(result["r1"].trace) = 5
    /\ \E i \in DOMAIN ran["r1"] : ran["r1"][i].failed

\* C3: the nodes of a run are executed one at a time in the order classify,
\* retrieve, write, validate, log: the completed attempts form a prefix of
\* that order, a failed attempt is always of the node that is next in it,
\* and a five-record result lists the agents in that order, whatever the
\* stages wrote (fallback classification and empty sources included).
C3_FixedOrder ==
    \A r \in Runs :
        /\ Len(Completed(r)) <= Len(NodeOrder)
        /\ \A i \in DOMAIN Completed(r) : Completed(r)[i].node = NodeOrder[i]
        /\ \A i \in DOMAIN ran[r] :
               ran[r][i].failed =>
                   LET before == Cardinality({j \in 1..(i - 1) :
                                                 ~ran[r][j].failed})
                   IN /\ before < Len(NodeOrder)
                      /\ ran[r][i].node = NodeOrder[before + 1]
        /\ pc[r] \in {"END", "done"} /\ ~Escaped(r) =>
               Len(Completed(r)) = Len(NodeOrder)
        /\ Finished(r) /\ ~IsErrorResult(result[r]) =>
               AgentNames(result[r].trace) = StageAgents

\* a five-record result after a failed classification call and no sources
C3_Witness ==
    /\ Finished("r1")
    /\ Len(result["r1"].trace) = 5
    /\ Outcomes("r1", "classify", "raise") # {}
    /\ st["r1"].intent = "general_question"
    /\ result["r1"].sources = <<>>

\* C4: once an exception leaves a node for good, nothing else is executed
\* and process_request returns the synthesized result: the generic message
\* followed by the exception text as answer, no sources, the single
\* Workflow/error record as trace and zero metrics; what earlier stages
\* left in the state is not in it.  Only that path gives such a result.
C4_TerminalFailureResult ==
    \A r \in Runs :
        /\ Escaped(r) =>
               /\ Finished(r)
               /\ IsErrorResult(result[r])
               /\ result[r].answer
                  = ErrorPrefix \o result[r].trace[1].output["error"]
               /\ result[r].sources = <<>>
               /\ result[r].metrics = Metrics(0, 0)
        /\ Finished(r) /\ IsErrorResult(result[r]) => Escaped(r)

\* the validate node failed for good after three stages had completed
C4_Witness ==
    /\ Escaped("r1")
    /\ Finished("r1")
    /\ Last(ran["r1"]).node = "validate"
    /\ Len(st["r1"].trace) = 3
    /\ st["r1"].sources # <<>>

-----------------------------------------------------------------------------
\* the nodes whose collaborator is the completion service
ChatNodes == {"classify", "write", "validate"}

\* the attempts of a node made so far
AttemptsOf(r, node) == {i \in DOMAIN ran[r] : ran[r][i].node = node}

HasErrorOutput(step) == "error" \in DOMAIN step.output

\* C5 (as claimed): where the retry loop accepts a deadline failure, a run
\* takes the terminal-failure path only after 1 + AGENT_MAX_RETRIES attempts
\* of the failing node (3 by default), and never makes more than that.
C5_RetriesAreAdditional ==
    \A r \in Runs :
        /\ attempts[r] <= AGENT_MAX_RETRIES + 1
        /\ Escaped(r) /\ ~timeoutIsOSError =>
               attempts[r] = AGENT_MAX_RETRIES + 1

ChatAlwaysRaised(r) ==
    /\ \E node \in ChatNodes : AttemptsOf(r, node) # {}
    /\ \A node \in ChatNodes :
           AttemptsOf(r, node) = Outcomes(r, node, "raise")

NoDeadlineFailure(r) == \A i \in DOMAIN ran[r] : ran[r][i].outcome # "timeout"

\* C8 (as claimed): a run in which every completion call raised returns
\* the terminal-failure result: no sources, one record, zero metrics.
C8_AllRaiseIsTerminal ==
    \A r \in DOMAIN result :
        ChatAlwaysRaised(r) =>
            /\ IsErrorResult(result[r])
            /\ result[r].sources = <<>>
            /\ result[r].metrics = Metrics(0, 0)

\* C8 (amended): a run in which every completion call raised, and no node
\* ran into its deadline, returns five records: the three agents that call
\* the completion service record the error, the answer is the apology text
\* and the state holds the fallback triple and the restrictive verdict.
C8_AllRaiseIsAbsorbed ==
    \A r \in DOMAIN result :
        ChatAlwaysRaised(r) /\ NoDeadlineFailure(r) =>
            /\ ~IsErrorResult(result[r])
            /\ AgentNames(result[r].trace) = StageAgents
            /\ \A i \in {1, 3, 4} : HasErrorOutput(result[r].trace[i])
            /\ result[r].answer = Apology
            /\ st[r].intent = "general_question"
            /\ st[r].sentiment = "neutral"
            /\ st[r].urgency = "medium"
            /\ st[r].is_safe = False
            /\ st[r].validation_reasons = <<SystemErrorIssue>>

\* every completion call raised and the run returned
C8_Witness ==
    /\ Finished("r1")
    /\ ChatAlwaysRaised("r1")
    /\ NoDeadlineFailure("r1")
    /\ \A node \in ChatNodes : AttemptsOf("r1", node) # {}

\* the log node has run
Evaluated(r) ==
    /\ r \in DOMAIN st
    /\ st[r].trace # <<>>
    /\ Last(st[r].trace).agent_name = "LoggerAgent"

\* C9 (as claimed): token_usage is at least 100 in every returned result
\* and in every state the log node leaves.
C9_TokenFloorEverywhere ==
    \A r \in Runs :
        /\ Finished(r) => result[r].metrics.token_usage >= 100
        /\ Evaluated(r) => st[r].metrics.token_usage >= 100

\* C9 (amended): token_usage is at least 100 in every state the log node
\* leaves on its normal path and in the result returned from it; it is 0
\* in the state left by the log node's except branch and in the
\* terminal-failure result.
C9_TokenFloorOnNormalPath ==
    \A r \in Runs :
        /\ Evaluated(r) =>
               IF HasErrorOutput(Last(st[r].trace))
               THEN st[r].metrics.token_usage = 0
               ELSE st[r].metrics.token_usage >= 100
        /\ Finished(r) =>
               IF IsErrorResult(result[r])
               THEN result[r].metrics.token_usage = 0
               ELSE /\ Evaluated(r)
                    /\ result[r].metrics = st[r].metrics

\* a result of the normal path, for the empty request and an empty answer
C9_Witness ==
    /\ Finished("r1")
    /\ Evaluated("r1")
    /\ ~HasErrorOutput(Last(st["r1"].trace))
    /\ st["r1"].request_text = ""
    /\ result["r1"].answer = ""
    /\ result["r1"].metrics.token_usage >= 100

\* C10 (as claimed): once the classify node has completed, intent,
\* sentiment and urgency each hold a value of their enumeration.
C10_ClassificationInEnum ==
    \A r \in DOMAIN st :
        st[r].trace # <<>> =>
            /\ st[r].intent \in Intents
            /\ st[r].sentiment \in Sentiments
            /\ st[r].urgency \in Urgencies

-----------------------------------------------------------------------------
\* the position of a node in the graph
StageIndex(node) == CHOOSE i \in DOMAIN NodeOrder : NodeOrder[i] = node

\* the record a completed attempt of the node appended to the trace
RecordOf(r, node) == st[r].trace[StageIndex(node)]

\* the records of the trace that carry the agent's name
RecordsOf(r, agent) ==
    {i \in DOMAIN st[r].trace : st[r].trace[i].agent_name = agent}

\* the completion call of the attempt returned text that is not JSON
Unparsable(a) == a.given.kind = "return" /\ ~a.given.value.wellformed

\* the completion call of the attempt raised and the agent caught it
CallRaised(a) == a.given.kind = "raise" /\ ~a.failed

\* the attempt numbered i is followed by the given node
FollowedBy(r, i, node) ==
    /\ i < Len(ran[r]) => ran[r][i + 1].node = node
    /\ i = Len(ran[r]) => pc[r] = node

\* C11: when the completion service answers the classify call with text
\* that is not valid JSON, the state holds intent general_question,
\* sentiment neutral and urgency medium, and the one ClassifierAgent record
\* carries that triple as its output, not an error.
C11_MalformedClassification ==
    \A r \in Runs :
        \A i \in DOMAIN ran[r] :
            ran[r][i].node = "classify" /\ Unparsable(ran[r][i]) =>
                /\ ~ran[r][i].failed
                /\ st[r].intent = "general_question"
                /\ st[r].sentiment = "neutral"
                /\ st[r].urgency = "medium"
                /\ RecordsOf(r, "ClassifierAgent") = {1}
                /\ RecordOf(r, "classify").output
                   = Dict3("intent", "general_question",
                           "sentiment", "neutral", "urgency", "medium")
                /\ ~HasErrorOutput(RecordOf(r, "classify"))

\* the classify call returned unparsable text and the run returned
C11_Witness ==
    /\ Finished("r1")
    /\ Len(result["r1"].trace) = 5
    /\ \E i \in DOMAIN ran["r1"] :
           ran["r1"][i].node = "classify" /\ Unparsable(ran["r1"][i])

\* C12: when the completion call raises inside classify, the agent returns
\* normally: the state holds the fallback triple, exactly one
\* ClassifierAgent record is appended, its output is {error: message} with
\* the text of the exception, and the retrieve node is the next to run.
C12_ClassifyCallRaised ==
    \A r \in Runs :
        \A i \in DOMAIN ran[r] :
            ran[r][i].node = "classify" /\ ran[r][i].outcome = "raise" =>
                /\ CallRaised(ran[r][i])
                /\ st[r].intent = "general_question"
                /\ st[r].sentiment = "neutral"
                /\ st[r].urgency = "medium"
                /\ RecordsOf(r, "ClassifierAgent") = {1}
                /\ RecordOf(r, "classify").output
                   = ("error" :> ran[r][i].given.exc.msg)
                /\ FollowedBy(r, i, "retrieve")

\* the classify call raised and the retrieve node has completed after it
C12_Witness ==
    /\ Len(ran["r1"]) >= 2
    /\ ran["r1"][1].node = "classify"
    /\ ran["r1"][1].outcome = "raise"
    /\ ran["r1"][2].node = "retrieve"
    /\ ~ran["r1"][2].failed
    /\ Len(st["r1"].trace) = 2

\* C13: when the completion service answers the validate call with
\* unparsable text, the state holds is_safe = True and validation_reasons =
\* ["Unable to parse validation response"]; a validate call that raised
\* leaves another verdict, is_safe = False.
C13_UnparsableValidationPasses ==
    \A r \in Runs :
        \A i \in DOMAIN ran[r] :
            ran[r][i].node = "validate" /\ ~ran[r][i].failed =>
                /\ Unparsable(ran[r][i]) =>
                       /\ st[r].is_safe = True
                       /\ st[r].validation_reasons
                          = <<"Unable to parse validation response">>
                       /\ ~HasErrorOutput(RecordOf(r, "validate"))
                /\ CallRaised(ran[r][i]) =>
                       /\ st[r].is_safe = False
                       /\ st[r].validation_reasons
                          # <<"Unable to parse validation response">>

\* the validate call returned unparsable text and the run returned
C13_Witness ==
    /\ Finished("r1")
    /\ \E i \in DOMAIN ran["r1"] :
           ran["r1"][i].node = "validate" /\ Unparsable(ran["r1"][i])
    /\ st["r1"].is_safe = True

\* C14: when the completion call raises inside validate_response, the state
\* holds is_safe = False and validation_reasons = ["Validation failed due to
\* system error"], exactly one GuardAgent record is appended, its output is
\* the error, and the log node is the next to run.
C14_ValidateCallRaised ==
    \A r \in Runs :
        \A i \in DOMAIN ran[r] :
            ran[r][i].node = "validate" /\ ran[r][i].outcome = "raise" =>
                /\ CallRaised(ran[r][i])
                /\ st[r].is_safe = False
                /\ st[r].validation_reasons
                   = <<"Validation failed due to system error">>
                /\ RecordsOf(r, "GuardAgent") = {4}
                /\ RecordOf(r, "validate").output
                   = ("error" :> ran[r][i].given.exc.msg)
                /\ FollowedBy(r, i, "log")
                /\ Finished(r) =>
                       /\ Last(ran[r]).node = "log"
                       /\ Last(result[r].trace).agent_name = "LoggerAgent"

\* the validate call raised and the log node ran after it
C14_Witness ==
    /\ Finished("r1")
    /\ Outcomes("r1", "validate", "raise") # {}
    /\ Last(ran["r1"]).node = "log"
    /\ Len(result["r1"].trace) = 5

\* the knowledge store gave the retrieve node of the run no document
NoDocuments(r) ==
    \E i \in DOMAIN ran[r] :
        /\ ran[r][i].node = "retrieve"
        /\ ran[r][i].outcome = "return"
        /\ ran[r][i].given.value = <<>>

\* the validate node of the run has completed
Validated(r) == r \in DOMAIN st /\ Len(st[r].trace) >= StageIndex("validate")

\* C15 (as claimed): in a run whose retrieval found no document, is_safe is
\* a boolean once the validate node has completed, whatever the completion
\* service answered.
C15_VerdictPopulated ==
    \A r \in Runs :
        NoDocuments(r) /\ Validated(r) => st[r].is_safe \in {True, False}

\* an exception is raised inside the try body of retrieve: by the search
\* itself, or by the conversion of a row that lacks id, title or content
RetrievalRaises(a) ==
    /\ a.node = "retrieve"
    /\ a.outcome # "timeout"
    /\ \/ a.given.kind = "raise"
       \/ \E k \in DOMAIN a.given.value :
              ~(RowKeys \subseteq DOMAIN a.given.value[k])

C17_WriteCallRaised ==
    \A r \in Runs :
        \A i \in DOMAIN ran[r] :
            ran[r][i].node = "write" /\ ran[r][i].outcome = "raise" =>
                /\ CallRaised(ran[r][i])
                /\ st[r].answer = Apology
                /\ RecordsOf(r, "WriterAgent") = {3}
                /\ RecordOf(r, "write").output
                   = ("error" :> ran[r][i].given.exc.msg)
                /\ FollowedBy(r, i, "validate")
                /\ Validated(r) =>
                       RecordOf(r, "validate").input["response_length"]
                       = Len(Apology)
                /\ Evaluated(r) =>
                       Last(st[r].trace).input.response_generated
                /\ Finished(r) /\ ~IsErrorResult(result[r]) =>
                       result[r].answer = Apology

\* the write call raised, and the validate and log nodes ran after it
C17_Witness ==
    /\ Finished("r1")
    /\ Outcomes("r1", "write", "raise") # {}
    /\ Len(result["r1"].trace) = 5
    /\ result["r1"].answer = Apology

\* C18 (as claimed): the answer of every returned result is a non-empty
\* string.
C18_AnswerNonEmpty ==
    \A r \in DOMAIN result :
        result[r].answer # None /\ Len(result[r].answer) > 0

\* C19 (as claimed): the result of a run that went through the validate
\* node has an is_safe entry, and the entry is not None.
C19_ResultCarriesVerdict ==
    \A r \in DOMAIN result :
        ~IsErrorResult(result[r]) =>
            /\ "is_safe" \in DOMAIN result[r]
            /\ result[r]["is_safe"] # None

-----------------------------------------------------------------------------
\* the exception an attempt ended with
raised_by(a) == IF a.outcome = "timeout" THEN TimeoutError ELSE a.given.exc

\* the state a run's own attempts build, one after the other
RECURSIVE replay(_, _)
replay(state, history) ==
    IF history = <<>> THEN state
    ELSE LET a == Head(history)
         IN replay(IF a.failed THEN state
                   ELSE IF a.node = "log"
                        THEN log_and_evaluate(state, a.finished)
                        ELSE node_func(a.node, state, a.given, a.started,
                                       a.finished),
                   Tail(history))

\* the state of a run, built from its own request text, its own clock
\* readings and its own collaborator outcomes
OwnState(r) ==
    replay(create_initial_state(calls[r].request_text, calls[r].at), ran[r])

\* the result of a run, built in the same way
OwnResult(r) ==
    IF Escaped(r)
    THEN error_result(calls[r].request_text, raised_by(Last(ran[r])),
                      Last(ran[r]).finished)
    ELSE success_result(OwnState(r))

\* C20: under every interleaving of two calls of process_request on one
\* AgentWorkflow, each call works on the state created for it: the state
\* and the result of a call are the ones its own request text and its own
\* collaborator outcomes produce, every record that names a request text
\* names the call's own, and each result has five records or one.
C20_CallsAreIndependent ==
    \A r \in DOMAIN st :
        /\ st[r] = OwnState(r)
        /\ \A i \in DOMAIN st[r].trace :
               "request_text" \in DOMAIN st[r].trace[i].input =>
                   st[r].trace[i].input["request_text"]
                   = calls[r].request_text
        /\ Finished(r) =>
               /\ result[r] = OwnResult(r)
               /\ Len(result[r].trace) \in {1, 5}
               /\ result[r].trace[1].input["request_text"]
                  = calls[r].request_text

\* two calls with different request texts overlapped: the second was made
\* before the first one's classify node finished and ended, on the
\* terminal-failure path, after the first had returned five records
C20_Witness ==
    /\ Finished("r1")
    /\ Finished("r2")
    /\ calls["r1"].request_text # calls["r2"].request_text
    /\ Len(result["r1"].trace) = 5
    /\ result["r1"].sources # <<>>
    /\ IsErrorResult(result["r2"])
    /\ calls["r2"].at < result["r1"].trace[1].timestamp
    /\ Last(result["r1"].trace).timestamp < result["r2"].trace[1].timestamp

-----------------------------------------------------------------------------
\* the paths on which a node's completed attempt left its record
OnSuccessPath(a) ==
    /\ ~a.failed
    /\ a.given.kind = "return"
    /\ a.node \in {"classify", "validate"} =>
           a.given.value.wellformed /\ IsDict(a.given.value.value)

OnParseFailurePath(a) ==
    ~a.failed /\ a.node \in {"classify", "validate"} /\ Unparsable(a)

OnCallFailurePath(a) == CallRaised(a)

\* C21: the trace is append-only and grows by exactly one record per node
\* attempt that returns: every step leaves the records already in the trace
\* as they are; it appends one record, carrying the name of the node's own
\* agent, exactly when an attempt of a node completes, and none otherwise,
\* so the length of the trace is the number of nodes completed so far.
C21_TraceAppendOnly ==
    [][\A r \in DOMAIN st :
           LET old == st[r].trace
               new == st'[r].trace
               grown == Len(new) = Len(old) + 1
           IN /\ grown \/ new = old
              /\ SubSeq(new, 1, Len(old)) = old
              /\ grown <=> /\ Len(ran'[r]) = Len(ran[r]) + 1
                           /\ ~Last(ran'[r]).failed
              /\ grown => Last(new).agent_name
                          = StageAgents[StageIndex(Last(ran'[r]).node)]
              /\ Len(new) = Len(SelectSeq(ran'[r], LAMBDA a : ~a.failed))
      ]_vars

\* a five-record trace one record of which was appended on the
\* parse-failure path, one on the collaborator-failure path and one on the
\* success path of a stage
C21_Witness ==
    /\ Finished("r1")
    /\ Len(st["r1"].trace) = 5
    /\ \E i, j, k \in DOMAIN ran["r1"] :
           /\ OnParseFailurePath(ran["r1"][i])
           /\ OnCallFailurePath(ran["r1"][j])
           /\ OnSuccessPath(ran["r1"][k])

FieldsOf(node) ==
    CASE node = "classify" -> {"intent", "sentiment", "urgency", "trace"}
      [] node = "retrieve" -> {"sources", "trace"}
      [] node = "write" -> {"answer", "trace"}
      [] node = "validate" -> {"is_safe", "validation_reasons", "trace"}
      [] node = "log" -> {"metrics", "trace"}
      [] OTHER -> {}

\* the fields of the state that a step changes
Written(r) == {f \in DOMAIN st[r] : st'[r][f] # st[r][f]}

\* C22: each stage writes only its own fields: a step of a run changes
\* no field of the state but those of the node the run is at (request_text
\* and start_time belong to none, intent, sentiment and urgency to classify,
\* sources to retrieve, answer to write, is_safe and validation_reasons to
\* validate, metrics to log), and metrics is {0, 0} until the log node has
\* run.
C22_StagesWriteOwnFields ==
    /\ [](\A r \in DOMAIN st :
              /\ st[r].request_text = calls[r].request_text
              /\ st[r].start_time = calls[r].at
              /\ ~Evaluated(r) => st[r].metrics = Metrics(0, 0))
    /\ [][\A r \in DOMAIN st : Written(r) \subseteq FieldsOf(pc[r])]_vars

\* every stage has written: the run returned five records, with sources,
\* after a validation that failed
C22_Witness ==
    /\ Finished("r1")
    /\ Len(st["r1"].trace) = 5
    /\ st["r1"].sources # <<>>
    /\ st["r1"].is_safe = False
    /\ Outcomes("r1", "validate", "raise") # {}
    /\ st["r1"].metrics # Metrics(0, 0)

\* the log node of the run was called and its estimate raised
EvaluationFailed(r) ==
    /\ r \in DOMAIN st
    /\ ran[r] # <<>>
    /\ Last(ran[r]).node = "log"
    /\ estimate_raises(st[r])

\* C23: when the log node fails internally it still returns normally: the
\* metrics hold the latency measured from start_time and token_usage 0,
\* exactly one LoggerAgent record is appended and its output is the error;
\* nothing reaches the orchestrator, so the run returns five records.
C23_EvaluationFailureAbsorbed ==
    \A r \in Runs :
        EvaluationFailed(r) =>
            /\ ~Last(ran[r]).failed
            /\ RecordsOf(r, "LoggerAgent") = {5}
            /\ DOMAIN RecordOf(r, "log").output = {"error"}
            /\ st[r].metrics
               = Metrics(millis(calls[r].at, Last(ran[r]).finished), 0)
            /\ pc[r] \in {"END", "done"}
            /\ Finished(r) =>
                   /\ AgentNames(result[r].trace) = StageAgents
                   /\ result[r].metrics = st[r].metrics

\* a source without content made the estimate raise, 30 seconds into a run
\* that returned five records
C23_Witness ==
    /\ Finished("r1")
    /\ EvaluationFailed("r1")
    /\ result["r1"].metrics = Metrics(30000, 0)
    /\ Len(result["r1"].trace) = 5

\* C24: every call of process_request eventually returns, with the five
\* records or with the terminal-failure result, and makes at most 5 times
\* AGENT_MAX_RETRIES node attempts on the way (AGENT_MAX_RETRIES is what
\* the code allows each node, see C5): it never loops or waits forever.
C24_EveryCallReturns ==
    /\ \A r \in Served : <>(Finished(r) /\ pc[r] = "done")
    /\ [](\A r \in Runs :
              /\ Len(ran[r]) <= 5 * AGENT_MAX_RETRIES
              /\ \A i \in DOMAIN NodeOrder :
                     Cardinality(AttemptsOf(r, NodeOrder[i]))
                     <= AGENT_MAX_RETRIES)

\* the longest run: every node that awaits a collaborator was cut off at
\* its deadline once and completed on its second attempt
C24_Witness ==
    /\ Finished("r1")
    /\ Len(ran["r1"]) = 4 * AGENT_MAX_RETRIES + 1
    /\ Len(result["r1"].trace) = 5

-----------------------------------------------------------------------------
\* the endpoint has answered the request
Responded == http.phase = "responded"

\* sub occurs in the string s
Contains(s, sub) ==
    \E i \in 1..(Len(s) - Len(sub) + 1) : SubSeq(s, i, i + Len(sub) - 1) = sub

\* the text is empty or consists of whitespace only
Blank(text) == \A i \in 1..Len(text) : SubSeq(text, i, i) \in Whitespace

\* C25: a request whose request_text is empty or only whitespace is
\* answered with status 400 and the EMPTY_REQUEST_TEXT detail, and
\* process_request is not called for it: it is called only with a text
\* that is not blank, and then with the text as posted.
C25_BlankTextRejected ==
    /\ Responded /\ Blank(http.request_text) =>
           /\ http.response.status_code = 400
           /\ http.response.body.detail
              = [code |-> "EMPTY_REQUEST_TEXT",
                 message |-> "Request text cannot be empty"]
    /\ http.phase # "idle" /\ Blank(http.request_text) =>
           /\ "r1" \notin DOMAIN calls
           /\ pc["r1"] = "idle"
           /\ ran["r1"] = <<>>
    /\ "r1" \in DOMAIN calls =>
           /\ ~Blank(http.request_text)
           /\ calls["r1"].request_text = http.request_text

\* a text of blanks, a newline and a tab was answered with 400
C25_Witness ==
    /\ Responded
    /\ http.request_text # ""
    /\ Blank(http.request_text)
    /\ http.response.status_code = 400
    /\ "r1" \notin DOMAIN calls

\* C26: an exception raised inside the try block by the awaited workflow
\* call (or by building the response from its result) leaves the endpoint
\* as the 500 WORKFLOW_ERROR response, whose detail is fixed and does not
\* carry the text of the exception; the 400 raised by the input validation
\* in the same try block leaves it unchanged, and is never answered as 500.
C26_ErrorMapping ==
    Responded =>
        /\ http.exc.type \notin {"", "HTTPException"} =>
               /\ http.response.status_code = 500
               /\ http.response.body.detail
                  = [code |-> "WORKFLOW_ERROR",
                     message |-> "An error occurred while processing your request. Please try again."]
               /\ ~Contains(http.response.body.detail.message, http.exc.msg)
        /\ http.exc.type = "HTTPException" =>
               /\ http.exc = EmptyRequestText
               /\ http.response.status_code = 400
               /\ http.response.body.detail = http.exc.detail
        /\ http.response.status_code = 500 =>
               http.exc.type \notin {"", "HTTPException"}
        /\ http.exc = NoException => http.response.status_code = 200

\* the awaited workflow call raised and the request was answered with 500
C26_Witness ==
    /\ Responded
    /\ http.exc = TestError
    /\ http.response.status_code = 500
    /\ strip(http.request_text) # ""

-----------------------------------------------------------------------------
\* LoggerAgent._estimate_token_usage applied on its own, to states of every
\* trace length up to MaxTraceLen whose request text, answer and source
\* contents have every length up to MaxChars

RECURSIVE Chars(_)
\* a str of n characters
Chars(n) == IF n = 0 THEN "" ELSE "x" \o Chars(n - 1)

\* a trace of n records
Records(n) ==
    [i \in 1..n |->
        AgentStep("ClassifierAgent", "classify_request", EmptyDict,
                  EmptyDict, 0, 0)]

Lengths == 0..MaxChars

\* the content lengths of no source, of one source and of two sources
SourceLengths ==
    {<<>>} \cup {<<c>> : c \in Lengths} \cup (Lengths \X Lengths)

\* the state the log node is given, by the lengths of what it holds
EstimateInput(lengths) ==
    [create_initial_state(Chars(lengths.request_text), 0) EXCEPT
        !.answer = Chars(lengths.answer),
        !.sources =
            [i \in DOMAIN lengths.sources |->
                Source("demo-1", "Password Reset Guide",
                       Chars(lengths.sources[i]), 85)],
        !.trace = Records(lengths.trace)]

EstimateInit ==
    /\ Constructed
    /\ calc \in {[op |-> "estimate", input |-> lengths, output |-> None] :
                    lengths \in [trace : 0..MaxTraceLen,
                                 request_text : Lengths,
                                 answer : Lengths,
                                 sources : SourceLengths]}

Estimate ==
    /\ calc.op = "estimate"
    /\ calc' = [calc EXCEPT
                  !.op = "estimated",
                  !.output = _estimate_token_usage(EstimateInput(calc.input))]
    /\ UNCHANGED <<calls, pc, st, attempts, result, ran, now, http,
                   timeoutIsOSError>>

EstimateNext == Estimate

EstimateSpec == EstimateInit /\ [][EstimateNext]_vars

-----------------------------------------------------------------------------
\* RetrieverAgent.retrieve applied on its own, to the initial state of a
\* request and the rows a search returns: at most MaxResults documents in
\* the order of search_documents (ORDER BY similarity DESC), every row with
\* the similarity column or, for a store that does not report it, none

Documents ==
    {[k \in RowKeys |-> RankedRows[i][k]] : i \in DOMAIN RankedRows}

Similarities == {85, 75}

SearchRows ==
    Documents
    \cup {doc @@ ("similarity" :> sim) : doc \in Documents,
                                          sim \in Similarities}

Ranked(rows) ==
    /\ \A i, j \in DOMAIN rows : i < j =>
           /\ rows[i]["id"] # rows[j]["id"]
           /\ DOMAIN rows[i] = DOMAIN rows[j]
           /\ "similarity" \in DOMAIN rows[i] =>
                  rows[i]["similarity"] >= rows[j]["similarity"]

SearchResults ==
    UNION {{rows \in [1..k -> SearchRows] : Ranked(rows)} :
           k \in 0..MaxResults}

RetrieveInit ==
    /\ Constructed
    /\ calc \in {[op |-> "retrieve",
                   input |-> [request_text |-> text, rows |-> rows],
                   output |-> None] :
                    text \in RequestTexts, rows \in SearchResults}

RetrieveRows ==
    /\ calc.op = "retrieve"
    /\ LET state == create_initial_state(calc.input.request_text, now)
       IN calc' = [calc EXCEPT
                      !.op = "retrieved",
                      !.output =
                          [calls |-> <<search_call(state)>>,
                           state |-> retrieve(state,
                                              Returned(calc.input.rows),
                                              now, now)]]
    /\ UNCHANGED <<calls, pc, st, attempts, result, ran, now, http,
                   timeoutIsOSError>>

RetrieveNext == RetrieveRows

RetrieveSpec == RetrieveInit /\ [][RetrieveNext]_vars

-----------------------------------------------------------------------------
\* classify and validate_response applied on their own to a completion
\* that is valid JSON and no object

\* a tuple: its members are of different types
NonObjects ==
    << JsonList, JsonScalar("int", 7), JsonScalar("float", 5),
       JsonScalar("str", "ok"), JsonScalar("bool", True),
       JsonScalar("NoneType", None) >>

\* the states a run can be in when its validate node starts: classified,
\* with no source or one, and with each answer the write node can leave
Drafts ==
    {write_response(
         retrieve(classify(create_initial_state(text, 0),
                           ClassifierReplies[1], 0, 0),
                  search_similar(BackendReplies[b]), 0, 0),
         WriterReplies[w], 0, 0) :
        text \in RequestTexts, b \in {1, 2}, w \in DOMAIN WriterReplies}

NonObjectInit ==
    /\ Constructed
    /\ calc \in {[op |-> "classify_nonobject",
                   input |-> [state |-> create_initial_state(text, 0),
                              value |-> i],
                   output |-> None] :
                    text \in RequestTexts, i \in DOMAIN NonObjects}
               \cup
               {[op |-> "validate_nonobject",
                 input |-> [state |-> state, value |-> i],
                 output |-> None] :
                    state \in Drafts, i \in DOMAIN NonObjects}

ClassifyNonObject ==
    /\ calc.op = "classify_nonobject"
    /\ calc' = [calc EXCEPT
                  !.op = "classified_nonobject",
                  !.output =
                      classify(calc.input.state,
                               Returned(JsonText(NonObjects[calc.input.value])),
                               now, now)]
    /\ UNCHANGED <<calls, pc, st, attempts, result, ran, now, http,
                   timeoutIsOSError>>

ValidateNonObject ==
    /\ calc.op = "validate_nonobject"
    /\ calc' = [calc EXCEPT
                  !.op = "validated_nonobject",
                  !.output =
                      validate_response(
                          calc.input.state,
                          Returned(JsonText(NonObjects[calc.input.value])),
                          now, now)]
    /\ UNCHANGED <<calls, pc, st, attempts, result, ran, now, http,
                   timeoutIsOSError>>

NonObjectNext == ClassifyNonObject \/ ValidateNonObject

NonObjectSpec == NonObjectInit /\ [][NonObjectNext]_vars

-----------------------------------------------------------------------------
\* GuardAgent.validate_response applied on its own to a completion that
\* is a JSON object with any of the keys is_safe, issues and confidence

ValidationObjects ==
    {verdict @@ issues @@ confidence :
        verdict \in {EmptyDict, "is_safe" :> True, "is_safe" :> False},
        issues \in {EmptyDict, "issues" :> <<>>,
                    "issues" :> <<"Unsupported claim">>},
        confidence \in {EmptyDict, "confidence" :> 90}}

ValidateInit ==
    /\ Constructed
    /\ calc \in {[op |-> "validate",
                   input |-> [state |-> state, object |-> obj],
                   output |-> None] :
                    state \in Drafts, obj \in ValidationObjects}

ValidateObject ==
    /\ calc.op = "validate"
    /\ calc' = [calc EXCEPT
                  !.op = "validated",
                  !.output =
                      validate_response(
                          calc.input.state,
                          Returned(JsonText(JsonObject(calc.input.object))),
                          now, now)]
    /\ UNCHANGED <<calls, pc, st, attempts, result, ran, now, http,
                   timeoutIsOSError>>

ValidateNext == ValidateObject

ValidateSpec == ValidateInit /\ [][ValidateNext]_vars

-----------------------------------------------------------------------------
\* ClassifierAgent.classify applied on its own, to the initial state of a
\* request and a completion that is a JSON object with any of the three
\* keys

ClassificationKeys == {"intent", "sentiment", "urgency"}

ClassificationValues ==
    Dict3("intent", {"billing_inquiry", "complaint"},
          "sentiment", {"negative", "positive"},
          "urgency", {"high", "low"})

ClassificationObjects ==
    UNION {{obj \in [keys -> UNION {ClassificationValues[k] : k \in keys}] :
               \A k \in keys : obj[k] \in ClassificationValues[k]} :
           keys \in SUBSET ClassificationKeys}

ClassifyInit ==
    /\ Constructed
    /\ calc \in {[op |-> "classify",
                   input |-> [request_text |-> text, object |-> obj],
                   output |-> None] :
                    text \in RequestTexts, obj \in ClassificationObjects}

ClassifyObject ==
    /\ calc.op = "classify"
    /\ calc' = [calc EXCEPT
                  !.op = "classified",
                  !.output =
                      classify(create_initial_state(calc.input.request_text,
                                                    now),
                               Returned(JsonText(JsonObject(calc.input.object))),
                               now, now)]
    /\ UNCHANGED <<calls, pc, st, attempts, result, ran, now, http,
                   timeoutIsOSError>>

ClassifyNext == ClassifyObject

ClassifySpec == ClassifyInit /\ [][ClassifyNext]_vars

-----------------------------------------------------------------------------
\* the state of the run in which every node completed on its first attempt,
\* with the collaborator answers and call durations of this run's completed
\* attempts
RECURSIVE first_try(_, _, _)
first_try(state, history, clock) ==
    IF history = <<>> THEN state
    ELSE LET a == Head(history)
             end == clock + (a.finished - a.started)
         IN IF a.failed THEN first_try(state, Tail(history), clock)
            ELSE first_try(IF a.node = "log"
                           THEN log_and_evaluate(state, end)
                           ELSE node_func(a.node, state, a.given, clock, end),
                           Tail(history), end)

FirstTry(r) ==
    first_try(create_initial_state(calls[r].request_text, calls[r].at),
              ran[r], calls[r].at)

\* a node of the run was attempted again after a failed attempt
Retried(r) == \E i \in DOMAIN ran[r] : ran[r][i].failed /\ i < Len(ran[r])

\* C27: a node attempt that fails at the orchestrator level (one cut off
\* at the deadline) leaves the state as it was: no field written, no record
\* appended.  So a run in which attempts failed and were retried has the
\* agent sequence of the trace, the classification, the sources, the
\* answer, the verdict and the token_usage of the run in which the same
\* collaborator answers were given on first attempts.
C27_RetryLeavesNoMark ==
    /\ [][\A r \in DOMAIN st :
              Len(ran'[r]) > Len(ran[r]) /\ Last(ran'[r]).failed =>
                  st'[r] = st[r]]_vars
    /\ [](\A r \in DOMAIN st :
              LET ref == FirstTry(r)
              IN /\ AgentNames(st[r].trace) = AgentNames(ref.trace)
                 /\ \A i \in DOMAIN st[r].trace :
                        st[r].trace[i].output = ref.trace[i].output
                        \/ st[r].trace[i].agent_name = "LoggerAgent"
                 /\ st[r].intent = ref.intent
                 /\ st[r].sources = ref.sources
                 /\ st[r].answer = ref.answer
                 /\ st[r].is_safe = ref.is_safe
                 /\ st[r].metrics.token_usage = ref.metrics.token_usage
                 /\ Finished(r) /\ ~IsErrorResult(result[r]) =>
                        /\ result[r].answer = ref.answer
                        /\ result[r].sources = ref.sources
                        /\ result[r].metrics.token_usage
                           = ref.metrics.token_usage)

\* the write node was cut off at the deadline and completed when retried;
\* the run returned five records 30 seconds later than the run without the
\* failed attempt
C27_Witness ==
    /\ Finished("r1")
    /\ Retried("r1")
    /\ Outcomes("r1", "write", "timeout") # {}
    /\ Len(result["r1"].trace) = 5
    /\ result["r1"].sources # <<>>
    /\ result["r1"].metrics.latency_ms
       = FirstTry("r1").metrics.latency_ms + 1000 * AGENT_STEP_TIMEOUT_SECONDS

\* the log node of the run completed on its normal path
EvaluatedNormally(r) == Evaluated(r) /\ ~HasErrorOutput(Last(st[r].trace))

\* C28: the evaluation summary the log node writes has success true
\* exactly when the answer is a non-empty string and is_safe is true; it
\* is false for an empty answer and for is_safe false or null.
C28_SuccessFlag ==
    \A r \in Runs :
        EvaluatedNormally(r) =>
            LET success == Last(st[r].trace).output.evaluation.success
            IN /\ success <=> /\ st[r].answer \notin {None, ""}
                              /\ st[r].is_safe = True
               /\ st[r].answer = "" => ~success
               /\ st[r].is_safe \in {False, None} => ~success

\* a run with a non-empty answer and is_safe null was evaluated
C28_Witness ==
    /\ EvaluatedNormally("r1")
    /\ st["r1"].answer \notin {None, ""}
    /\ st["r1"].is_safe = None
    /\ ~Last(st["r1"].trace).output.evaluation.success

\* the lengths of a list summed
TotalChars(lengths) ==
    LET RECURSIVE upto(_)
        upto(i) == IF i = 0 THEN 0 ELSE lengths[i] + upto(i - 1)
    IN upto(Len(lengths))

Estimated == calc.op = "estimated"

\* C29 (as stated): token_usage is 50 * len(trace) + len(request_text)/4
\* + len(answer)/4 + sum(len(source.content))/4 / 4, at least 100.
C29_TokenFormulaAsStated ==
    Estimated =>
        LET estimated == 50 * calc.input.trace
                         + calc.input.request_text \div 4
                         + calc.input.answer \div 4
                         + (TotalChars(calc.input.sources) \div 4) \div 4
        IN calc.output = IF estimated >= 100 THEN estimated ELSE 100

\* C29 (amended): token_usage is 50 * len(trace) + len(request_text) // 4
\* + len(answer) // 4 + sum(len(source.content)) // 4, each quotient
\* rounded down and the sum of the content lengths divided by 4 once, and
\* 100 when that is less than 100; for every trace length up to MaxTraceLen
\* and texts of every length up to MaxChars.
C29_TokenFormula ==
    Estimated =>
        LET estimated == 50 * calc.input.trace
                         + calc.input.request_text \div 4
                         + calc.input.answer \div 4
                         + TotalChars(calc.input.sources) \div 4
        IN calc.output = IF estimated >= 100 THEN estimated ELSE 100

\* two records and two sources of 16 characters in all: 100 + 16 // 4
C29_Witness ==
    /\ Estimated
    /\ calc.input.trace = 2
    /\ calc.input.request_text = 0
    /\ calc.input.answer = 0
    /\ Len(calc.input.sources) = 2
    /\ TotalChars(calc.input.sources) = 16
    /\ calc.output = 104

Classified == calc.op = "classified"

\* C30: when the classification completion parses as a JSON object, the
\* intent, sentiment and urgency of the state are the values of the
\* object's keys, and each key the object lacks takes its own default
\* (general_question, neutral, medium) whatever the other two keys are.
C30_DefaultsPerKey ==
    Classified =>
        LET object == calc.input.object
            default == Dict3("intent", "general_question",
                             "sentiment", "neutral", "urgency", "medium")
        IN /\ \A k \in {"intent", "sentiment", "urgency"} :
                  calc.output[k] = IF k \in DOMAIN object THEN object[k]
                                   ELSE default[k]
           /\ Len(calc.output.trace) = 1
           /\ calc.output.trace[1].output = object

\* an object with the sentiment only: the sentiment is adopted, the intent
\* and the urgency take their defaults
C30_Witness ==
    /\ Classified
    /\ DOMAIN calc.input.object = {"sentiment"}
    /\ calc.output.sentiment = "negative"
    /\ calc.output.intent = "general_question"
    /\ calc.output.urgency = "medium"

Retrieved == calc.op = "retrieved"

\* C31: after retrieve has completed on its normal path, sources holds one
\* Source per row the search returned, in the order of the rows, which is
\* that of descending similarity_score; id, title and content are the
\* row's, similarity_score is the row's similarity, or 0 for a row without
\* one; the search was called once, with query = request_text, limit = 5
\* and threshold = 0.7.
C31_SourcesMirrorResults ==
    Retrieved =>
        LET rows == calc.input.rows
            sources == calc.output.state.sources
        IN /\ Len(sources) = Len(rows)
           /\ \A i \in DOMAIN rows :
                  /\ sources[i].id = rows[i]["id"]
                  /\ sources[i].title = rows[i]["title"]
                  /\ sources[i].content = rows[i]["content"]
                  /\ sources[i].similarity_score =
                         IF "similarity" \in DOMAIN rows[i]
                         THEN rows[i]["similarity"] ELSE 0
           /\ \A i, j \in DOMAIN sources :
                  i < j => sources[i].similarity_score
                           >= sources[j].similarity_score
           /\ calc.output.calls =
                  << [fn |-> "search_similar",
                      query |-> calc.input.request_text,
                      limit |-> 5, threshold |-> 70] >>
           /\ Len(calc.output.state.trace) = 1
           /\ calc.output.state.trace[1].output.sources_found = Len(rows)

\* two rows of similarity 0.85 and 0.75 became two sources in that order
C31_Witness ==
    /\ Retrieved
    /\ calc.input.request_text # ""
    /\ Len(calc.output.state.sources) = 2
    /\ calc.output.state.sources[1].id = "demo-1"
    /\ calc.output.state.sources[1].similarity_score = 85
    /\ calc.output.state.sources[2].id = "doc-3"
    /\ calc.output.state.sources[2].similarity_score = 75

\* the user prompts of the write calls the run has made
WritePrompts(r) ==
    {ran[r][i].call.messages[2].content :
        i \in {j \in DOMAIN ran[r] : ran[r][j].node = "write"}}

\* C32 (as claimed): the prompt the write node builds has the literal
\* unknown in place of each of intent, sentiment and urgency that is null
\* in the state, and has the no-sources notice exactly when sources is
\* empty.
C32_PromptSubstitutesUnknown ==
    \A r \in DOMAIN st :
        \A prompt \in WritePrompts(r) :
            /\ st[r].intent = None => Contains(prompt, "- Intent: unknown")
            /\ st[r].sentiment = None =>
                   Contains(prompt, "- Sentiment: unknown")
            /\ st[r].urgency = None => Contains(prompt, "- Urgency: unknown")
            /\ st[r].sources = <<>> <=>
                   Contains(prompt, "No specific knowledge sources were found")

\* the completion calls the run's attempts of a node have made
ChatCalls(r, node) ==
    {ran[r][i].call : i \in {j \in DOMAIN ran[r] : ran[r][j].node = node}}

\* C33 (as claimed): the classify node and the validate node call the
\* completion service with fast = true, and the write node calls it without
\* the fast flag.
C33_FastForClassifyAndValidate ==
    \A r \in Runs :
        /\ \A call \in ChatCalls(r, "classify") \cup ChatCalls(r, "validate") :
               call.fn = "chat" /\ call.fast
        /\ \A call \in ChatCalls(r, "write") : call.fn = "chat" /\ ~call.fast

\* the completed attempt of the node in the run's history
CompletedAttempt(r, node) ==
    ran[r][CHOOSE i \in DOMAIN ran[r] :
               ran[r][i].node = node /\ ~ran[r][i].failed]

HasCompleted(r, node) ==
    \E i \in DOMAIN ran[r] : ran[r][i].node = node /\ ~ran[r][i].failed

\* C34: in every run, answer is a string, not null, whenever the validate
\* node or the log node starts, the write node having set it on its normal
\* path and in its except branch; so no len() of the answer fails in these
\* nodes: the one failure of the log node is the len() of a null source
\* content.
C34_AnswerSetBeforeValidation ==
    \A r \in DOMAIN st :
        /\ pc[r] \in {"validate", "log"} =>
               /\ st[r].answer # None
               /\ st[r].answer
                  \in {WriterReplies[i].value :
                          i \in {j \in DOMAIN WriterReplies :
                                    WriterReplies[j].kind = "return"}}
                      \cup {Apology}
        /\ Evaluated(r) /\ HasErrorOutput(Last(st[r].trace)) =>
               \E i \in DOMAIN st[r].sources : st[r].sources[i].content = None

\* the write call raised, and the validate node is about to start with the
\* apology as the answer
C34_Witness ==
    /\ "r1" \in DOMAIN st
    /\ pc["r1"] = "validate"
    /\ HasCompleted("r1", "write")
    /\ CompletedAttempt("r1", "write").given.kind = "raise"
    /\ st["r1"].answer = Apology

\* the value the write node of the run wrote to answer
Drafted(r) ==
    LET a == CompletedAttempt(r, "write")
    IN IF a.given.kind = "return" THEN a.given.value ELSE Apology

\* C35: the validate node and the log node never change answer or sources;
\* the answer process_request returns with five records is the value the
\* write node wrote, also when validation set is_safe to false.
C35_AnswerPassesThrough ==
    /\ [][\A r \in DOMAIN st :
              pc[r] \in {"validate", "log"} =>
                  /\ st'[r].answer = st[r].answer
                  /\ st'[r].sources = st[r].sources]_vars
    /\ [](\A r \in Runs :
              /\ r \in DOMAIN st /\ HasCompleted(r, "write") =>
                     st[r].answer = Drafted(r)
              /\ Finished(r) /\ ~IsErrorResult(result[r]) =>
                     /\ Len(result[r].trace) = 5
                     /\ result[r].answer = Drafted(r)
                     /\ result[r].sources = st[r].sources)

\* a run returned the drafted answer although validation judged it unsafe
C35_Witness ==
    /\ Finished("r1")
    /\ Len(result["r1"].trace) = 5
    /\ st["r1"].is_safe = False
    /\ ~HasErrorOutput(RecordOf("r1", "validate"))
    /\ result["r1"].answer = "Click the 'Forgot Password' link on the login page."
    /\ result["r1"].sources # <<>>

\* the method appended one record, of the agent, with an error output
OneErrorRecord(before, after, agent) ==
    /\ Len(after.trace) = Len(before.trace) + 1
    /\ SubSeq(after.trace, 1, Len(before.trace)) = before.trace
    /\ Last(after.trace).agent_name = agent
    /\ HasErrorOutput(Last(after.trace))

\* C36: a validation completion that is valid JSON but no object (a list, a
\* number, a string, a boolean, null) is handled as a failed call: is_safe
\* is false, validation_reasons is ["Validation failed due to system
\* error"] and one GuardAgent record with an error output is appended; for
\* the same text the classify node sets general_question, neutral, medium
\* and appends one ClassifierAgent record with an error output.
C36_NonObjectTakesFailurePath ==
    /\ calc.op = "validated_nonobject" =>
           /\ calc.output.is_safe = False
           /\ calc.output.validation_reasons
              = <<"Validation failed due to system error">>
           /\ OneErrorRecord(calc.input.state, calc.output, "GuardAgent")
           /\ calc.output.answer = calc.input.state.answer
    /\ calc.op = "classified_nonobject" =>
           /\ calc.output.intent = "general_question"
           /\ calc.output.sentiment = "neutral"
           /\ calc.output.urgency = "medium"
           /\ OneErrorRecord(calc.input.state, calc.output, "ClassifierAgent")

\* the validation completion was the JSON text null, after a drafted answer
C36_Witness ==
    /\ calc.op = "validated_nonobject"
    /\ NonObjects[calc.input.value].type = "NoneType"
    /\ calc.input.state.answer \notin {"", Apology}
    /\ Len(calc.output.trace) = 4
    /\ Last(calc.output.trace).output
       = ("error" :> "'NoneType' object has no attribute 'get'")
    /\ calc.output.is_safe = False

\* C37: when the validation completion parses as a JSON object, is_safe
\* is the object's is_safe, or false when the object has no such key, and
\* validation_reasons is the object's issues, or the empty list when it has
\* no such key: a parsed verdict is unsafe unless it says otherwise,
\* while text that does not parse passes (C13).
C37_ParsedVerdictDefaults ==
    calc.op = "validated" =>
        LET object == calc.input.object
        IN /\ calc.output.is_safe =
                  IF "is_safe" \in DOMAIN object THEN object["is_safe"]
                  ELSE False
           /\ calc.output.validation_reasons =
                  IF "issues" \in DOMAIN object THEN object["issues"]
                  ELSE <<>>
           /\ Len(calc.output.trace) = Len(calc.input.state.trace) + 1
           /\ Last(calc.output.trace).output = object
           /\ validate_response(calc.input.state, Returned(Malformed),
                                now, now).is_safe = True

\* an object with the confidence only: unsafe, and no reasons
C37_Witness ==
    /\ calc.op = "validated"
    /\ DOMAIN calc.input.object = {"confidence"}
    /\ calc.input.state.answer \notin {"", Apology}
    /\ calc.output.is_safe = False
    /\ calc.output.validation_reasons = <<>>

\* the run returned a trace of five records
FiveRecords(r) ==
    Finished(r) /\ ~IsErrorResult(result[r]) /\ Len(result[r].trace) = 5

====
